---- MODULE Spec2Model ----
(***************************************************************************)
(* A model of the astronomical time engine of KosherZmanim:                *)
(* AstronomicalCalendar (src/src/AstronomicalCalendar.ts) together with    *)
(* the GeoLocation value object and the AstronomicalCalculator capability  *)
(* it uses.                                                                *)
(*                                                                         *)
(* Time.  A Temporal.ZonedDateTime is modelled by its instant, an integer  *)
(* count of clock ticks since 00:00 UTC of day 0; withTimeZone() keeps the *)
(* instant, and every comparison and difference the calendar makes is on   *)
(* the instant.  The tick is the smallest unit of time of the model and    *)
(* stands for Temporal's nanosecond; TicksPerSecond ticks make a second    *)
(* (10^9 in the program, which does not fit TLC's integers).  A civil date *)
(* (Temporal.PlainDate) is an integer day number.  A fractional UTC hour   *)
(* (a JavaScript number) is an integer count of ticks or NaN.              *)
(*                                                                         *)
(* Values.  Every JavaScript value the model handles is a record           *)
(* [tag, v]: null, undefined, NaN, a number, a ZonedDateTime, a Duration.  *)
(***************************************************************************)
EXTENDS Integers, Sequences, FiniteSets, TLC

VARIABLES
    geo,    \* the GeoLocation objects of the heap: reference -> field values
    cal,    \* the AstronomicalCalendar objects: name -> fields, or NoCal
    last,   \* the last public call that completed: what it was and its outcome
    frame   \* the activation of a dip search that is running: locals, position

vars == <<geo, cal, last, frame>>

-----------------------------------------------------------------------------
(* Bounds of the model *)

TicksPerSecond == 1     \* resolution of the clock
MaxDay == 2             \* civil dates are the days 0 .. MaxDay
MaxArg == 13            \* explicit start/end arguments are the instants 0 .. MaxArg
MaxDip == 75            \* dips of MaxDip angle units and more are one value
LastYear == 1985        \* the last year a Daf Yomi is asked for

-----------------------------------------------------------------------------
(* JavaScript values *)

Null == [tag |-> "null", v |-> 0]
Undefined == [tag |-> "undefined", v |-> 0]
NaN == [tag |-> "NaN", v |-> 0]
Num(n) == [tag |-> "number", v |-> n]
Zdt(n) == [tag |-> "ZonedDateTime", v |-> n]
Dur(n) == [tag |-> "Duration", v |-> n]

IsNaN(x) == x.tag = "NaN"
IsZdt(x) == x.tag = "ZonedDateTime"

\* Math.trunc(n / d) for d > 0: rounds toward zero
Trunc(n, d) == IF n >= 0 THEN n \div d ELSE -((-n) \div d)

\* n reduced into [0, d)
Mod(n, d) == n % d

\* Temporal's default overflow: 'constrain' clamps a field into its range
Constrain(n, lo, hi) == IF n < lo THEN lo ELSE IF n > hi THEN hi ELSE n

-----------------------------------------------------------------------------
(* Units of time, in ticks *)

SECOND == TicksPerSecond
MINUTE == 60 * SECOND
HOUR_NANOS == 60 * MINUTE
DAY == 24 * HOUR_NANOS

-----------------------------------------------------------------------------
(* Zenith angles, in degrees *)

GEOMETRIC_ZENITH == 90
CIVIL_ZENITH == 96
NAUTICAL_ZENITH == 102
ASTRONOMICAL_ZENITH == 108

SUNRISE == "SUNRISE"
SUNSET == "SUNSET"
NOON == "NOON"
MIDNIGHT == "MIDNIGHT"

-----------------------------------------------------------------------------
(* GeoLocation: latitude, longitude (degrees), elevation (metres) and the   *)
(* raw UTC offset of its time zone (hours).                                *)

GeoRefs == {"g1", "g2"}
CalIds == {"a", "c"}
NoCal == [date |-> 0, geoLocation |-> "none", astronomicalCalculator |-> "none"]

Lakewood == [latitude |-> 40, longitude |-> -74, elevation |-> 10, rawOffset |-> -5]
Greenwich == [latitude |-> 51, longitude |-> 0, elevation |-> 0, rawOffset |-> 0]
Svalbard == [latitude |-> 78, longitude |-> 15, elevation |-> 0, rawOffset |-> 1]
Suva == [latitude |-> -18, longitude |-> 178, elevation |-> 0, rawOffset |-> 12]
Apia == [latitude |-> -14, longitude |-> -172, elevation |-> 0, rawOffset |-> 13]
Attu == [latitude |-> 53, longitude |-> 173, elevation |-> 10, rawOffset |-> -10]
Locations == {Lakewood, Greenwich, Svalbard, Suva, Apia, Attu}

\* the longitudes and calculators a caller sets after construction
Longitudes == {-180, 0, 180}
Selectable == {"NOAA", "Custom"}

Dates == 0 .. MaxDay

\* GeoLocation.getAntimeridianAdjustment(): the longitude as a nominal UTC
\* offset (longitude / 15 hours) against the zone's raw offset; a difference
\* of more than half a day moves the date by one day
AntimeridianAdjustment(g) ==
    LET diff == g.longitude * 4 * MINUTE - g.rawOffset * HOUR_NANOS
    IN  IF diff > 12 * HOUR_NANOS THEN 1
        ELSE IF diff < -(12 * HOUR_NANOS) THEN -1
        ELSE 0

-----------------------------------------------------------------------------
(* AstronomicalCalculator: the capability the calendar queries.  Three      *)
(* calculator objects exist: two shipped algorithms and one supplied by the *)
(* caller, whose solar noon is not defined on the last day of the model.    *)

Calculators == {"NOAA", "SunTimes", "Custom"}

\* the equation of time on a date, in ticks; the two shipped algorithms
\* differ by a minute and by a number of ticks that changes with the date
EquationOfTime(k, date) ==
    (IF k = "SunTimes" THEN MINUTE + date ELSE 0) + ((date % 3) - 1) * 10 * MINUTE

\* the instant of the upper transit of the date, in ticks from 00:00 UTC
MeridianNoon(k, date, g) ==
    12 * HOUR_NANOS - g.longitude * 4 * MINUTE + EquationOfTime(k, date)

\* half the arc of the day at a zenith: negative beyond the polar circle in
\* winter, where the sun reaches the horizon at no time of the day
\* The elevation adjustment is an angle added to the zenith.
ElevationAdjustment(g) == IF g.elevation > 0 THEN 2 ELSE 0

HalfArc(g, zenith, adjustForElevation) ==
    LET polar == g.latitude > 66
        base == IF polar THEN -(2 * HOUR_NANOS) ELSE 6 * HOUR_NANOS
        perDegree == IF polar THEN 20 * MINUTE ELSE 5 * MINUTE
        adjusted == IF adjustForElevation THEN zenith + ElevationAdjustment(g) ELSE zenith
    IN  base + (adjusted - GEOMETRIC_ZENITH) * perDegree

HasEvent(g, zenith, adjustForElevation) ==
    /\ HalfArc(g, zenith, adjustForElevation) > 0
    /\ HalfArc(g, zenith, adjustForElevation) < 12 * HOUR_NANOS

CalcUTCSunrise(k, date, g, zenith, adjustForElevation) ==
    IF HasEvent(g, zenith, adjustForElevation)
    THEN Num(Mod(MeridianNoon(k, date, g) - HalfArc(g, zenith, adjustForElevation), DAY))
    ELSE NaN

CalcUTCSunset(k, date, g, zenith, adjustForElevation) ==
    IF HasEvent(g, zenith, adjustForElevation)
    THEN Num(Mod(MeridianNoon(k, date, g) + HalfArc(g, zenith, adjustForElevation), DAY))
    ELSE NaN

CalcUTCNoon(k, date, g) ==
    IF k = "Custom" /\ date >= MaxDay
    THEN NaN
    ELSE Num(Mod(MeridianNoon(k, date, g), DAY))

\* one query of the calculator, as the calendar's calls are logged
Query(fn, date, ref, g, zenith, flag) ==
    [fn |-> fn, date |-> date, geoLocation |-> ref, longitude |-> g.longitude,
     zenith |-> zenith, adjustForElevation |-> flag]

-----------------------------------------------------------------------------
(* Outcomes of a method: what it returns or throws, and the calculator      *)
(* queries it made                                                          *)

Return(val, queries) == [out |-> "return", val |-> val, err |-> "", queries |-> queries]
Throw(err, queries) == [out |-> "throw", val |-> Undefined, err |-> err, queries |-> queries]

-----------------------------------------------------------------------------
(* AstronomicalCalendar.  A method is an operator of the object's fields   *)
(* (self: date, geoLocation reference, astronomicalCalculator) and of the   *)
(* heap; it yields the method's outcome.                                    *)

getDate(self) == self.date
getGeoLocation(self) == geo[self.geoLocation]
getAstronomicalCalculator(self) == self.astronomicalCalculator

\* the stored date, the adjustment left out
getDateUnadjusted(self) == getDate(self)

getAdjustedDate(self) ==
    LET offset == AntimeridianAdjustment(getGeoLocation(self))
    IN  IF offset = 0 THEN getDate(self) ELSE getDate(self) + offset

\* Math.floor in the place of Math.trunc
LocalTimeHoursFloor(g) == g.longitude \div 15

\* "Math.trunc(this.getGeoLocation().getLongitude() / 15)"
LocalTimeHours(g) == Trunc(g.longitude, 15)

\* a rollover that subtracts a day for every event that is late in the day
DayShiftBackOnly(solarEvent, localTimeHours, hours) ==
    IF solarEvent = SUNRISE /\ localTimeHours + hours > 18 THEN -1
    ELSE IF solarEvent = SUNSET /\ localTimeHours + hours > 18 THEN -1
    ELSE IF solarEvent = MIDNIGHT /\ localTimeHours + hours > 12 THEN -1
    ELSE 0

\* the rollover of the UTC day of an event, in days
DayShift(solarEvent, localTimeHours, hours) ==
    IF solarEvent = SUNRISE /\ localTimeHours + hours > 18 THEN -1
    ELSE IF solarEvent = SUNSET /\ localTimeHours + hours < 6 THEN 1
    ELSE IF solarEvent = MIDNIGHT /\ localTimeHours + hours > 12 THEN -1
    ELSE 0

\* getDateFromTime(time, solarEvent): the value returned (a ZonedDateTime or
\* null).  The chain milliseconds, microseconds, nanoseconds of the program
\* is the one component below the second of the model.
getDateFromTime(self, time, solarEvent) ==
    IF IsNaN(time) THEN Null
    ELSE
        LET calculatedTime == time.v
            adjustedDate == getAdjustedDate(self)
            hours == Trunc(calculatedTime, HOUR_NANOS)
            rest1 == calculatedTime - hours * HOUR_NANOS
            minutes == Trunc(rest1, MINUTE)
            rest2 == rest1 - minutes * MINUTE
            seconds == Trunc(rest2, SECOND)
            subsecond == rest2 - seconds * SECOND
            localTimeHours == LocalTimeHours(getGeoLocation(self))
            day == adjustedDate + DayShift(solarEvent, localTimeHours, hours)
        IN  Zdt(day * DAY
                + Constrain(hours, 0, 23) * HOUR_NANOS
                + Constrain(minutes, 0, 59) * MINUTE
                + Constrain(seconds, 0, 59) * SECOND
                + Constrain(subsecond, 0, SECOND - 1))

\* getUTCSunrise(zenith) and its three siblings: the number the calculator
\* returns and the query made
getUTCSunrise(self, zenith) ==
    [val |-> CalcUTCSunrise(getAstronomicalCalculator(self), getAdjustedDate(self),
                            getGeoLocation(self), zenith, TRUE),
     queries |-> <<Query("getUTCSunrise", getAdjustedDate(self), self.geoLocation,
                         getGeoLocation(self), zenith, TRUE)>>]

getUTCSeaLevelSunrise(self, zenith) ==
    [val |-> CalcUTCSunrise(getAstronomicalCalculator(self), getAdjustedDate(self),
                            getGeoLocation(self), zenith, FALSE),
     queries |-> <<Query("getUTCSunrise", getAdjustedDate(self), self.geoLocation,
                         getGeoLocation(self), zenith, FALSE)>>]

getUTCSunset(self, zenith) ==
    [val |-> CalcUTCSunset(getAstronomicalCalculator(self), getAdjustedDate(self),
                           getGeoLocation(self), zenith, TRUE),
     queries |-> <<Query("getUTCSunset", getAdjustedDate(self), self.geoLocation,
                         getGeoLocation(self), zenith, TRUE)>>]

\* the sea-level query conflated with the elevation-adjusted one
getUTCSeaLevelSunsetElevated(self, zenith) == getUTCSunset(self, zenith)

getUTCSeaLevelSunset(self, zenith) ==
    [val |-> CalcUTCSunset(getAstronomicalCalculator(self), getAdjustedDate(self),
                           getGeoLocation(self), zenith, FALSE),
     queries |-> <<Query("getUTCSunset", getAdjustedDate(self), self.geoLocation,
                         getGeoLocation(self), zenith, FALSE)>>]

\* the test inverted: "if (!Number.isNaN(x)) return null"
NullUnlessNaN(self, utc, solarEvent) ==
    IF ~IsNaN(utc.val)
    THEN Return(Null, utc.queries)
    ELSE Return(getDateFromTime(self, utc.val, solarEvent), utc.queries)

\* "if (Number.isNaN(x)) return null; return this.getDateFromTime(x, event)"
NullIfNaN(self, utc, solarEvent) ==
    IF IsNaN(utc.val)
    THEN Return(Null, utc.queries)
    ELSE Return(getDateFromTime(self, utc.val, solarEvent), utc.queries)

getSunrise(self) == NullIfNaN(self, getUTCSunrise(self, GEOMETRIC_ZENITH), SUNRISE)
getSeaLevelSunrise(self) == NullIfNaN(self, getUTCSeaLevelSunrise(self, GEOMETRIC_ZENITH), SUNRISE)
getSunset(self) == NullIfNaN(self, getUTCSunset(self, GEOMETRIC_ZENITH), SUNSET)
getSeaLevelSunset(self) == NullIfNaN(self, getUTCSeaLevelSunset(self, GEOMETRIC_ZENITH), SUNSET)

getSunriseOffsetByDegrees(self, offsetZenith) ==
    NullIfNaN(self, getUTCSunrise(self, offsetZenith), SUNRISE)
getSunsetOffsetByDegrees(self, offsetZenith) ==
    NullIfNaN(self, getUTCSunset(self, offsetZenith), SUNSET)

getBeginCivilTwilight(self) == getSunriseOffsetByDegrees(self, CIVIL_ZENITH)
getBeginNauticalTwilight(self) == getSunriseOffsetByDegrees(self, NAUTICAL_ZENITH)
getBeginAstronomicalTwilight(self) == getSunriseOffsetByDegrees(self, ASTRONOMICAL_ZENITH)
getEndCivilTwilight(self) == getSunsetOffsetByDegrees(self, CIVIL_ZENITH)
getEndNauticalTwilight(self) == getSunsetOffsetByDegrees(self, NAUTICAL_ZENITH)
getEndAstronomicalTwilight(self) == getSunsetOffsetByDegrees(self, ASTRONOMICAL_ZENITH)

\* Math.floor in the place of Math.trunc
getTemporalHourFloor(self, startOfday, endOfDay) ==
    LET start == IF startOfday = Undefined
                 THEN getSeaLevelSunrise(self) ELSE Return(startOfday, <<>>)
        end == IF endOfDay = Undefined
               THEN getSeaLevelSunset(self) ELSE Return(endOfDay, <<>>)
        queries == start.queries \o end.queries
    IN  IF start.val = Null \/ end.val = Null
        THEN Return(Undefined, queries)
        ELSE Return(Dur((end.val.v - start.val.v) \div 12), queries)

\* getTemporalHour(startOfday = this.getSeaLevelSunrise(),
\*                 endOfDay = this.getSeaLevelSunset()):
\* a default is evaluated only for an argument that is undefined
getTemporalHour(self, startOfday, endOfDay) ==
    LET start == IF startOfday = Undefined
                 THEN getSeaLevelSunrise(self) ELSE Return(startOfday, <<>>)
        end == IF endOfDay = Undefined
               THEN getSeaLevelSunset(self) ELSE Return(endOfDay, <<>>)
        queries == start.queries \o end.queries
    IN  IF start.val = Null \/ end.val = Null
        THEN Return(Undefined, queries)
        ELSE Return(Dur(Trunc(end.val.v - start.val.v, 12)), queries)

\* a loop that runs one time too many: "index <= 6"
AddTimesOnceMore(offsetTime, temporalHour) == offsetTime + 7 * temporalHour

\* "for (let index = 0; index < 6; index++) offsetTime = offsetTime.add(temporalHour)"
AddTimes(offsetTime, temporalHour) ==
    LET index1 == offsetTime + temporalHour
        index2 == index1 + temporalHour
        index3 == index2 + temporalHour
        index4 == index3 + temporalHour
        index5 == index4 + temporalHour
    IN  index5 + temporalHour

\* getSunTransit(startOfDay?, endOfDay?): a ZonedDateTime is truthy, null
\* and undefined are falsy
getSunTransit(self, startOfDay, endOfDay) ==
    IF IsZdt(startOfDay)
    THEN IF ~IsZdt(endOfDay)
         THEN Throw("IllegalArgumentException", <<>>)
         ELSE LET temporalHour == getTemporalHour(self, startOfDay, endOfDay)
              IN  Return(Zdt(AddTimes(startOfDay.v, temporalHour.val.v)),
                         temporalHour.queries)
    ELSE LET noon == CalcUTCNoon(getAstronomicalCalculator(self), getAdjustedDate(self),
                                 getGeoLocation(self))
         IN  Return(getDateFromTime(self, noon, NOON),
                    <<Query("getUTCNoon", getAdjustedDate(self), self.geoLocation,
                            getGeoLocation(self), 0, FALSE)>>)

\* clone(): new AstronomicalCalendar(this.geoLocation), then setDate(this.date)
\* and setAstronomicalCalculator(this.astronomicalCalculator)
clone(self) ==
    [date |-> self.date,
     geoLocation |-> self.geoLocation,
     astronomicalCalculator |-> self.astronomicalCalculator]

\* setDate called on this in the place of the clone
SolarMidnightObjectsShared(self) ==
    [this |-> [self EXCEPT !.date = getDate(self) + 1],
     clonedCal |-> [clone(self) EXCEPT !.date = getDate(self) + 1]]

\* the two calendar objects of getSolarMidnight() after
\* "clonedCal = this.clone(); clonedCal.setDate(this.getDate().add({ days: 1 }))"
SolarMidnightObjects(self) ==
    [this |-> self,
     clonedCal |-> [clone(self) EXCEPT !.date = getDate(self) + 1]]

\* getSolarMidnight(): this.getSunTransit()!.add(...) on null, and
\* until(null), are TypeErrors of the runtime
getSolarMidnight(self) ==
    LET objects == SolarMidnightObjects(self)
        transit == getSunTransit(objects.this, Undefined, Undefined)
        next == getSunTransit(objects.clonedCal, Undefined, Undefined)
    IN  IF transit.val = Null
        THEN Throw("TypeError", transit.queries)
        ELSE IF next.val = Null
        THEN Throw("TypeError", transit.queries \o transit.queries \o next.queries)
        ELSE Return(Zdt(transit.val.v + Trunc(next.val.v - transit.val.v, 2)),
                    transit.queries \o transit.queries \o next.queries)

\* setLongitude called on the calendar's own GeoLocation, not on a copy
SunLowerTransitObjectsShared(self) ==
    LET meridian == getGeoLocation(self).longitude
        wrap == meridian + 180 > 180
        lowerMeridian == IF wrap THEN meridian + 180 - 360 ELSE meridian + 180
    IN  [cal |-> IF wrap THEN getAdjustedDate(self) - 1 ELSE getAdjustedDate(self),
         geoLocation |-> [getGeoLocation(self) EXCEPT !.longitude = lowerMeridian],
         lowerGeoLocation |-> [getGeoLocation(self) EXCEPT !.longitude = lowerMeridian]]

\* the date and the two GeoLocation objects of getSunLowerTransit() before
\* the calculator is queried: the calendar's own GeoLocation and
\* lowerGeoLocation, the copy GeoLocation.clone() made, its longitude set
SunLowerTransitObjects(self) ==
    LET lowerGeoLocation == getGeoLocation(self)
        meridian == lowerGeoLocation.longitude
        wrap == meridian + 180 > 180
        lowerMeridian == IF wrap THEN meridian + 180 - 360 ELSE meridian + 180
    IN  [cal |-> IF wrap THEN getAdjustedDate(self) - 1 ELSE getAdjustedDate(self),
         geoLocation |-> getGeoLocation(self),
         lowerGeoLocation |-> [lowerGeoLocation EXCEPT !.longitude = lowerMeridian]]

\* getSunLowerTransit(): solar noon at lowerGeoLocation, made a timestamp
\* with the calendar's own longitude and adjusted date
getSunLowerTransit(self) ==
    LET objects == SunLowerTransitObjects(self)
        noon == CalcUTCNoon(getAstronomicalCalculator(self), objects.cal,
                            objects.lowerGeoLocation)
    IN  Return(getDateFromTime(self, noon, MIDNIGHT),
               <<Query("getUTCNoon", objects.cal, "lowerGeoLocation",
                       objects.lowerGeoLocation, 0, FALSE)>>)

\* GeoLocation.getLocalMeanTimeOffset(): (longitude - nearest multiple of
\* 15 degrees) * 4 minutes per degree
LocalMeanTimeOffset(g) ==
    (g.longitude - 15 * ((2 * g.longitude + 15) \div 30)) * 4 * MINUTE

\* getLocalMeanTime(hours): a comparison with NaN is false
getLocalMeanTime(self, hours) ==
    IF ~IsNaN(hours) /\ (hours.v < 0 \/ hours.v >= 24 * HOUR_NANOS)
    THEN Throw("IllegalArgumentException", <<>>)
    ELSE LET geoLocation == getGeoLocation(self)
             rawOffsetHours == geoLocation.rawOffset * HOUR_NANOS
             time == IF IsNaN(hours) THEN NaN ELSE Num(hours.v - rawOffsetHours)
             date == getDateFromTime(self, time, SUNRISE)
         IN  IF date = Null
             THEN Return(Undefined, <<>>)
             ELSE Return(Zdt(date.v - LocalMeanTimeOffset(geoLocation)), <<>>)

-----------------------------------------------------------------------------
(* The state machine.  A step is one public call by the caller, on the      *)
(* calendar a or on c, the calendar a.clone() returned.                     *)

Call(x, op, args, res) == [op |-> op, self |-> x, args |-> args, res |-> res]

\* no dip search is running
NoFrame ==
    [pc |-> "idle", op |-> "none", self |-> "none", minutes |-> 0, degrees |-> 0,
     offsetByDegrees |-> Null, offsetByTime |-> Null]

Exists(x) == cal[x] # NoCal

\* the calendar "new AstronomicalCalendar(geoLocation)" builds, its date set
\* to the caller's date afterwards
Construct(ref, date) ==
    [date |-> date, geoLocation |-> ref, astronomicalCalculator |-> "NOAA"]

\* a live calendar object, one GeoLocation of its own and one the caller
\* holds for setGeoLocation
Init ==
    /\ geo = [r \in GeoRefs |-> IF r = "g1" THEN Lakewood ELSE Suva]
    /\ cal = [x \in CalIds |-> IF x = "a" THEN Construct("g1", 0) ELSE NoCal]
    /\ last = Call("a", "constructor", <<>>, Return(Undefined, <<>>))
    /\ frame = NoFrame

\* a configuration of the calendar a that constructor and setters reach
InitQuery ==
    /\ \E g \in Locations : geo = [r \in GeoRefs |-> g]
    /\ \E d \in Dates, k \in Calculators :
          cal = [x \in CalIds |->
                    IF x = "a"
                    THEN [Construct("g1", d) EXCEPT !.astronomicalCalculator = k]
                    ELSE NoCal]
    /\ last = Call("a", "constructor", <<>>, Return(Undefined, <<>>))
    /\ frame = NoFrame

(* Mutators *)

\* setDate(date) with a Temporal.PlainDate
SetDate(x) ==
    /\ Exists(x)
    /\ \E d \in Dates :
          /\ cal' = [cal EXCEPT ![x].date = d]
          /\ last' = Call(x, "setDate", <<Num(d)>>, Return(Undefined, <<>>))
    /\ UNCHANGED <<geo, frame>>

SetGeoLocation(x) ==
    /\ Exists(x)
    /\ \E r \in GeoRefs :
          /\ cal' = [cal EXCEPT ![x].geoLocation = r]
          /\ last' = Call(x, "setGeoLocation", <<>>, Return(Undefined, <<>>))
    /\ UNCHANGED <<geo, frame>>

SetAstronomicalCalculator(x) ==
    /\ Exists(x)
    /\ \E k \in Selectable :
          /\ cal' = [cal EXCEPT ![x].astronomicalCalculator = k]
          /\ last' = Call(x, "setAstronomicalCalculator", <<>>, Return(Undefined, <<>>))
    /\ UNCHANGED <<geo, frame>>

\* x.getGeoLocation().setLongitude(longitude)
SetLongitude(x) ==
    /\ Exists(x)
    /\ \E longitude \in Longitudes :
          /\ geo' = [geo EXCEPT ![cal[x].geoLocation].longitude = longitude]
          /\ last' = Call(x, "getGeoLocation().setLongitude", <<Num(longitude)>>,
                          Return(Undefined, <<>>))
    /\ UNCHANGED <<cal, frame>>

\* c = a.clone()
Clone ==
    /\ ~Exists("c")
    /\ cal' = [cal EXCEPT !["c"] = clone(cal["a"])]
    /\ last' = Call("a", "clone", <<>>, Return(Undefined, <<>>))
    /\ UNCHANGED <<geo, frame>>

(* Queries: they assign no field *)

\* a query whose date adjustment is made in place, on the stored date
AnswerAdjusting(x, op, args, res) ==
    /\ Exists(x)
    /\ last' = Call(x, op, args, res)
    /\ cal' = [cal EXCEPT ![x].date = getAdjustedDate(cal[x])]
    /\ UNCHANGED <<geo, frame>>

Answer(x, op, args, res) ==
    /\ Exists(x)
    /\ last' = Call(x, op, args, res)
    /\ UNCHANGED <<geo, cal, frame>>

GetSunrise(x) == Answer(x, "getSunrise", <<>>, getSunrise(cal[x]))
GetSeaLevelSunrise(x) == Answer(x, "getSeaLevelSunrise", <<>>, getSeaLevelSunrise(cal[x]))
GetSunset(x) == Answer(x, "getSunset", <<>>, getSunset(cal[x]))
GetSeaLevelSunset(x) == Answer(x, "getSeaLevelSunset", <<>>, getSeaLevelSunset(cal[x]))

Zeniths == {88, GEOMETRIC_ZENITH, 98}

GetSunriseOffsetByDegrees(x) ==
    \E z \in Zeniths :
        Answer(x, "getSunriseOffsetByDegrees", <<Num(z)>>, getSunriseOffsetByDegrees(cal[x], z))

GetSunsetOffsetByDegrees(x) ==
    \E z \in Zeniths :
        Answer(x, "getSunsetOffsetByDegrees", <<Num(z)>>, getSunsetOffsetByDegrees(cal[x], z))

GetBeginCivilTwilight(x) ==
    Answer(x, "getBeginCivilTwilight", <<>>, getBeginCivilTwilight(cal[x]))
GetBeginNauticalTwilight(x) ==
    Answer(x, "getBeginNauticalTwilight", <<>>, getBeginNauticalTwilight(cal[x]))
GetBeginAstronomicalTwilight(x) ==
    Answer(x, "getBeginAstronomicalTwilight", <<>>, getBeginAstronomicalTwilight(cal[x]))
GetEndCivilTwilight(x) ==
    Answer(x, "getEndCivilTwilight", <<>>, getEndCivilTwilight(cal[x]))
GetEndNauticalTwilight(x) ==
    Answer(x, "getEndNauticalTwilight", <<>>, getEndNauticalTwilight(cal[x]))
GetEndAstronomicalTwilight(x) ==
    Answer(x, "getEndAstronomicalTwilight", <<>>, getEndAstronomicalTwilight(cal[x]))

\* the instants a caller passes as startOfDay and endOfDay
TimeArgs == {Zdt(n) : n \in 0 .. MaxArg}

GetTemporalHour(x) ==
    \E s, e \in TimeArgs \cup {Undefined, Null} :
        Answer(x, "getTemporalHour", <<s, e>>, getTemporalHour(cal[x], s, e))

GetSunTransit(x) ==
    \E s, e \in TimeArgs \cup {Undefined} :
        Answer(x, "getSunTransit", <<s, e>>, getSunTransit(cal[x], s, e))

\* getSolarMidnight(): the calendar is left as the method's statements leave it
GetSolarMidnight(x) ==
    /\ Exists(x)
    /\ last' = Call(x, "getSolarMidnight", <<>>, getSolarMidnight(cal[x]))
    /\ cal' = [cal EXCEPT ![x] = SolarMidnightObjects(cal[x]).this]
    /\ UNCHANGED <<geo, frame>>

\* getSunLowerTransit(): the GeoLocation of the calendar is left as the
\* method's statements leave it
GetSunLowerTransit(x) ==
    /\ Exists(x)
    /\ last' = Call(x, "getSunLowerTransit", <<>>, getSunLowerTransit(cal[x]))
    /\ geo' = [geo EXCEPT ![cal[x].geoLocation] = SunLowerTransitObjects(cal[x]).geoLocation]
    /\ UNCHANGED <<cal, frame>>

\* an error thrown with a message, the message as the sentences it is made of
ThrowMessage(err, message) ==
    [out |-> "throw", val |-> Undefined, err |-> err, queries |-> <<>>,
     message |-> message]

\* toString(): throw new UnsupportedError(...)
toString(self) ==
    ThrowMessage("UnsupportedError",
        <<"This method is unsupported, due to the fact that it depends on a circular dependency.">>)

\* toJSON(): throw new UnsupportedError(... + ...)
toJSON(self) ==
    ThrowMessage("UnsupportedError",
        <<"This method is unsupported, due to the fact that it depends on a circular dependency. ",
          "Use ZmanimFormatter.toJSON(astronomicalCalendar) instead.">>)

CallToString(x) == Answer(x, "toString", <<>>, toString(cal[x]))
CallToJSON(x) == Answer(x, "toJSON", <<>>, toJSON(cal[x]))

\* the hours a caller passes: NaN, -0.01, 0, 12, 23.999999 and 24
HoursArgs ==
    {NaN, Num(-1), Num(0), Num(12 * HOUR_NANOS), Num(24 * HOUR_NANOS - 1),
     Num(24 * HOUR_NANOS)}

GetLocalMeanTime(x) ==
    \E hours \in HoursArgs :
        Answer(x, "getLocalMeanTime", <<hours>>, getLocalMeanTime(cal[x], hours))

Mutators(x) ==
    \/ SetDate(x) \/ SetGeoLocation(x) \/ SetAstronomicalCalculator(x) \/ SetLongitude(x)

\* the object life: construction, mutation, cloning, and the queries that
\* take no argument
Next ==
    \/ Clone
    \/ \E x \in CalIds :
          \/ Mutators(x)
          \/ GetSunrise(x) \/ GetSunset(x) \/ GetSolarMidnight(x)
          \/ GetSunLowerTransit(x)

Spec == Init /\ [][Next]_vars

\* every query, with its arguments, in every configuration of one calendar:
\* a query assigns no field, so each is made on the configuration as drawn
Fresh == last.op = "constructor"

NextQuery ==
    \/ Fresh /\ GetSunrise("a")
    \/ Fresh /\ GetSeaLevelSunrise("a")
    \/ Fresh /\ GetSunset("a")
    \/ Fresh /\ GetSeaLevelSunset("a")
    \/ Fresh /\ GetSunriseOffsetByDegrees("a")
    \/ Fresh /\ GetSunsetOffsetByDegrees("a")
    \/ Fresh /\ GetBeginCivilTwilight("a")
    \/ Fresh /\ GetBeginNauticalTwilight("a")
    \/ Fresh /\ GetBeginAstronomicalTwilight("a")
    \/ Fresh /\ GetEndCivilTwilight("a")
    \/ Fresh /\ GetEndNauticalTwilight("a")
    \/ Fresh /\ GetEndAstronomicalTwilight("a")
    \/ Fresh /\ GetTemporalHour("a")
    \/ Fresh /\ GetSunTransit("a")
    \/ Fresh /\ GetSolarMidnight("a")
    \/ Fresh /\ GetSunLowerTransit("a")
    \/ Fresh /\ GetLocalMeanTime("a")
    \/ Fresh /\ CallToString("a")
    \/ Fresh /\ CallToJSON("a")

SpecQuery == InitQuery /\ [][NextQuery]_vars

-----------------------------------------------------------------------------
(* The dip searches: getSunriseSolarDipFromOffset(minutes) and              *)
(* getSunsetSolarDipFromOffset(minutes).  Each is a loop, modelled test by  *)
(* test and body by body: frame holds the locals of the running call.       *)
(*                                                                          *)
(* The angle unit of the model stands for the increment of the sunrise      *)
(* search (0.0001 degrees); the increment of the sunset search (0.001       *)
(* degrees) is ten units.  Big arithmetic is exact, and so is the count.    *)
(* Beyond MaxDip units from the horizon the calculator has no event at any  *)
(* zenith (DipSaturatedIsNull), so that all such dips are kept as one.      *)

SunriseIncrementor == 1
SunsetIncrementor == 10

Saturate(degrees) ==
    IF degrees > MaxDip THEN MaxDip
    ELSE IF degrees < -MaxDip THEN -MaxDip
    ELSE degrees

\* Temporal.ZonedDateTime.compare(one, two)
compare(one, two) == IF one.v < two.v THEN -1 ELSE IF one.v > two.v THEN 1 ELSE 0

\* the offsets in minutes a caller passes
MinutesArgs == {NaN, Num(-90), Num(-7), Num(0), Num(3), Num(72), Num(90), Num(400)}

\* the locals of a search after its declarations, before the first test
DipFrame(x, op, minutes, offsetByDegrees, offsetByTime) ==
    [pc |-> "while", op |-> op, self |-> x, minutes |-> minutes, degrees |-> 0,
     offsetByDegrees |-> offsetByDegrees, offsetByTime |-> offsetByTime]

\* the call of the running search, completed
DipDone(res) == Call(frame.self, frame.op, <<Num(frame.minutes)>>, res)

\* compare() is reached with offsetByTime undefined: "null?.subtract(...)" is
\* undefined, which compare() cannot convert to a ZonedDateTime
DipCompareFails ==
    /\ frame.offsetByDegrees # Null
    /\ frame.minutes # 0
    /\ ~IsZdt(frame.offsetByTime)

\* getSunriseSolarDipFromOffset(minutes), up to the first test of the loop
GetSunriseSolarDipFromOffset(x) ==
    /\ Exists(x)
    /\ frame.pc = "idle"
    /\ \E minutes \in MinutesArgs :
          IF IsNaN(minutes)
          THEN /\ last' = Call(x, "getSunriseSolarDipFromOffset", <<minutes>>,
                               Return(Null, <<>>))
               /\ frame' = frame
          ELSE LET offsetByDegrees == getSeaLevelSunrise(cal[x]).val
                   offsetByTime ==
                       IF offsetByDegrees = Null THEN Undefined
                       ELSE Zdt(offsetByDegrees.v - minutes.v * MINUTE)
               IN  /\ frame' = DipFrame(x, "getSunriseSolarDipFromOffset", minutes.v,
                                        offsetByDegrees, offsetByTime)
                   /\ last' = last
    /\ UNCHANGED <<geo, cal>>

\* a condition that loops on while the event is at the target, not yet past it
SunriseDipLoopsUntilPast ==
    \/ frame.offsetByDegrees = Null
    \/ frame.minutes < 0 /\ compare(frame.offsetByDegrees, frame.offsetByTime) # 1
    \/ frame.minutes > 0 /\ compare(frame.offsetByDegrees, frame.offsetByTime) # -1

\* the condition of the sunrise loop
SunriseDipLoops ==
    \/ frame.offsetByDegrees = Null
    \/ frame.minutes < 0 /\ compare(frame.offsetByDegrees, frame.offsetByTime) = -1
    \/ frame.minutes > 0 /\ compare(frame.offsetByDegrees, frame.offsetByTime) = 1

\* one test of the sunrise loop, and the return when it fails
SunriseDipTest ==
    /\ frame.pc = "while"
    /\ frame.op = "getSunriseSolarDipFromOffset"
    /\ IF DipCompareFails
       THEN last' = DipDone(Throw("TypeError", <<>>)) /\ frame' = NoFrame
       ELSE IF SunriseDipLoops
       THEN last' = last /\ frame' = [frame EXCEPT !.pc = "body"]
       ELSE last' = DipDone(Return(Num(frame.degrees), <<>>)) /\ frame' = NoFrame
    /\ UNCHANGED <<geo, cal>>

\* one body of the sunrise loop
SunriseDipBody ==
    /\ frame.pc = "body"
    /\ frame.op = "getSunriseSolarDipFromOffset"
    /\ LET degrees == Saturate(IF frame.minutes > 0
                               THEN frame.degrees + SunriseIncrementor
                               ELSE frame.degrees - SunriseIncrementor)
       IN  frame' = [frame EXCEPT
                        !.pc = "while",
                        !.degrees = degrees,
                        !.offsetByDegrees =
                            getSunriseOffsetByDegrees(cal[frame.self],
                                                      GEOMETRIC_ZENITH + degrees).val]
    /\ UNCHANGED <<geo, cal, last>>

\* getSunsetSolarDipFromOffset(minutes), up to the first test of the loop
GetSunsetSolarDipFromOffset(x) ==
    /\ Exists(x)
    /\ frame.pc = "idle"
    /\ \E minutes \in MinutesArgs :
          IF IsNaN(minutes)
          THEN /\ last' = Call(x, "getSunsetSolarDipFromOffset", <<minutes>>,
                               Return(Null, <<>>))
               /\ frame' = frame
          ELSE LET offsetByDegrees == getSeaLevelSunset(cal[x]).val
                   offsetByTime ==
                       IF offsetByDegrees = Null THEN Undefined
                       ELSE Zdt(offsetByDegrees.v + minutes.v * MINUTE)
               IN  /\ frame' = DipFrame(x, "getSunsetSolarDipFromOffset", minutes.v,
                                        offsetByDegrees, offsetByTime)
                   /\ last' = last
    /\ UNCHANGED <<geo, cal>>

\* the condition of the sunset loop
SunsetDipLoops ==
    \/ frame.offsetByDegrees = Null
    \/ frame.minutes > 0 /\ compare(frame.offsetByDegrees, frame.offsetByTime) = -1
    \/ frame.minutes < 0 /\ compare(frame.offsetByDegrees, frame.offsetByTime) = 1

SunsetDipTest ==
    /\ frame.pc = "while"
    /\ frame.op = "getSunsetSolarDipFromOffset"
    /\ IF DipCompareFails
       THEN last' = DipDone(Throw("TypeError", <<>>)) /\ frame' = NoFrame
       ELSE IF SunsetDipLoops
       THEN last' = last /\ frame' = [frame EXCEPT !.pc = "body"]
       ELSE last' = DipDone(Return(Num(frame.degrees), <<>>)) /\ frame' = NoFrame
    /\ UNCHANGED <<geo, cal>>

SunsetDipBody ==
    /\ frame.pc = "body"
    /\ frame.op = "getSunsetSolarDipFromOffset"
    /\ LET degrees == Saturate(IF frame.minutes > 0
                               THEN frame.degrees + SunsetIncrementor
                               ELSE frame.degrees - SunsetIncrementor)
       IN  frame' = [frame EXCEPT
                        !.pc = "while",
                        !.degrees = degrees,
                        !.offsetByDegrees =
                            getSunsetOffsetByDegrees(cal[frame.self],
                                                     GEOMETRIC_ZENITH + degrees).val]
    /\ UNCHANGED <<geo, cal, last>>

\* a search is made on each configuration of one calendar; the program is
\* sequential, so a running loop takes its next step
NextDip ==
    \/ Fresh /\ GetSunriseSolarDipFromOffset("a")
    \/ Fresh /\ GetSunsetSolarDipFromOffset("a")
    \/ SunriseDipTest
    \/ SunriseDipBody
    \/ SunsetDipTest
    \/ SunsetDipBody

SpecDip == InitQuery /\ [][NextDip]_vars /\ WF_vars(NextDip)

-----------------------------------------------------------------------------
(* Mutations and queries of one calendar in sequence: every query is made   *)
(* after every mutation that reaches a configuration, and after the two     *)
(* queries that build and change objects of their own.  A dip search is     *)
(* started on a calendar as constructed or as setDate left it; the program  *)
(* is sequential, so nothing else runs while a search does.                 *)

MutatorOps ==
    {"setDate", "setGeoLocation", "setAstronomicalCalculator",
     "getGeoLocation().setLongitude"}

Idle == frame.pc = "idle"

Ready ==
    /\ Idle
    /\ last.op \in MutatorOps \cup {"constructor", "getSolarMidnight", "getSunLowerTransit"}

DipReady == Idle /\ last.op \in {"constructor", "setDate"}

NextLife ==
    \/ Idle /\ Mutators("a")
    \/ Ready /\ GetSunrise("a")
    \/ Ready /\ GetSeaLevelSunrise("a")
    \/ Ready /\ GetSunset("a")
    \/ Ready /\ GetSeaLevelSunset("a")
    \/ Ready /\ GetSunriseOffsetByDegrees("a")
    \/ Ready /\ GetSunsetOffsetByDegrees("a")
    \/ Ready /\ GetBeginCivilTwilight("a")
    \/ Ready /\ GetBeginNauticalTwilight("a")
    \/ Ready /\ GetBeginAstronomicalTwilight("a")
    \/ Ready /\ GetEndCivilTwilight("a")
    \/ Ready /\ GetEndNauticalTwilight("a")
    \/ Ready /\ GetEndAstronomicalTwilight("a")
    \/ Ready /\ GetTemporalHour("a")
    \/ Ready /\ GetSunTransit("a")
    \/ Ready /\ GetSolarMidnight("a")
    \/ Ready /\ GetSunLowerTransit("a")
    \/ Ready /\ GetLocalMeanTime("a")
    \/ DipReady /\ GetSunriseSolarDipFromOffset("a")
    \/ DipReady /\ GetSunsetSolarDipFromOffset("a")
    \/ SunriseDipTest
    \/ SunriseDipBody
    \/ SunsetDipTest
    \/ SunsetDipBody

SpecLife == Init /\ [][NextLife]_vars

-----------------------------------------------------------------------------
(* Daf Yomi Bavli: YomiCalculator (src/src/hebrewcalendar/limud/            *)
(* YomiCalculator.ts).  A Temporal.PlainDate is its year, month and day.    *)

PlainDate(year, month, day) == [year |-> year, month |-> month, day |-> day]

\* the days of a month of the ISO calendar
DaysInMonth(year, month) ==
    IF month = 2
    THEN IF year % 4 = 0 /\ (year % 100 # 0 \/ year % 400 = 0) THEN 29 ELSE 28
    ELSE IF month \in {4, 6, 9, 11} THEN 30 ELSE 31

\* Temporal.PlainDate.compare(one, two)
comparePlainDate(one, two) ==
    IF one.year # two.year THEN (IF one.year < two.year THEN -1 ELSE 1)
    ELSE IF one.month # two.month THEN (IF one.month < two.month THEN -1 ELSE 1)
    ELSE IF one.day # two.day THEN (IF one.day < two.day THEN -1 ELSE 1)
    ELSE 0

dafYomiStartDate == PlainDate(1923, 9, 11)
shekalimChangeDate == PlainDate(1975, 6, 24)

\* the dates a Daf Yomi is asked for: every day of the years from that of
\* the first cycle to LastYear
CivilDates ==
    {date \in {PlainDate(y, m, d) : y \in dafYomiStartDate.year .. LastYear,
                                    m \in 1 .. 12, d \in 1 .. 31} :
        date.day <= DaysInMonth(date.year, date.month)}

\* getJulianDay(date): Math.floor(365.25 * n) is 1461 n / 4 rounded down,
\* Math.floor(30.6001 * n) is 306001 n / 10000 rounded down, and
\* Math.trunc(k - 1524.5) is k - 1525 + 1 for a whole k above 1525
getJulianDay(date) ==
    LET year == IF date.month <= 2 THEN date.year - 1 ELSE date.year
        month == IF date.month <= 2 THEN date.month + 12 ELSE date.month
        a == Trunc(year, 100)
        b == 2 - a + Trunc(a, 4)
    IN  ((1461 * (year + 4716)) \div 4) + ((306001 * (month + 1)) \div 10000)
            + date.day + b - 1525

dafYomiJulianStartDay == getJulianDay(dafYomiStartDate)
shekalimJulianChangeDay == getJulianDay(shekalimChangeDate)

\* the number of daf per masechta as declared, Shekalim the fifth
blattPerMasechta ==
    <<64, 157, 105, 121, 22, 88, 56, 40, 35, 31, 32, 29, 27, 122, 112, 91, 66, 49, 90, 82,
      119, 119, 176, 113, 24, 49, 76, 14, 120, 110, 142, 61, 34, 34, 28, 22, 4, 9, 5, 73>>

\* a quotient of the program's floating-point division, kept exact
Quotient(n, d) == [n |-> n, d |-> d]

\* new DafBavliYomi(masechta, blatt)
Daf(masechtaNumber, daf) == [tag |-> "Daf", v |-> daf, masechtaNumber |-> masechtaNumber]

\* "for (const blattInMasechta of blattPerMasechta)": masechta is index - 1
RECURSIVE FindDaf(_, _, _, _)
FindDaf(table, index, total, dafNo) ==
    IF index > Len(table) THEN Undefined
    ELSE LET masechta == index - 1
             blattInMasechta == table[index]
             newTotal == total + blattInMasechta - 1
             blatt == 1 + blattInMasechta - (newTotal - dafNo)
         IN  IF dafNo < newTotal
             THEN Daf(masechta,
                      IF masechta = 36 THEN blatt + 21
                      ELSE IF masechta = 37 THEN blatt + 24
                      ELSE IF masechta = 38 THEN blatt + 32
                      ELSE blatt)
             ELSE FindDaf(table, index + 1, newTotal, dafNo)

\* the test inverted to "!= 1": the start date itself is refused
PriorToStartOrOnIt(date) == comparePlainDate(date, dafYomiStartDate) # 1

\* "Temporal.PlainDate.compare(date, YomiCalculator.dafYomiStartDate) == -1"
PriorToStart(date) == comparePlainDate(date, dafYomiStartDate) = -1

\* getDafYomiBavli(calendar), date the calendar's civil date
getDafYomiBavli(date) ==
    LET julianDay == getJulianDay(date)
        changed == comparePlainDate(date, shekalimChangeDate) = 1
        cycleNo == IF changed
                   THEN Quotient(8 * 2711 + (julianDay - shekalimJulianChangeDay), 2711)
                   ELSE Quotient(2702 + (julianDay - dafYomiJulianStartDay), 2702)
        dafNo == IF changed
                 THEN (julianDay - shekalimJulianChangeDay) % 2711
                 ELSE (julianDay - dafYomiJulianStartDay) % 2702
        table == [blattPerMasechta EXCEPT
                     ![5] = IF cycleNo.n <= 7 * cycleNo.d THEN 13 ELSE 22]
    IN  IF PriorToStart(date)
        THEN Throw("IllegalArgumentException", <<>>)
        ELSE Return(FindDaf(table, 1, 0, dafNo), <<>>)

GetDafYomiBavli ==
    /\ \E date \in CivilDates :
          last' = Call("YomiCalculator", "getDafYomiBavli", <<date>>, getDafYomiBavli(date))
    /\ UNCHANGED <<geo, cal, frame>>

-----------------------------------------------------------------------------
(* The Hebrew calendar the Yerushalmi calculator asks: JewishDate and the   *)
(* "hebrew" calendar of Temporal, by the calendar's fixed arithmetic.  A    *)
(* day is counted by its Julian day number.                                 *)

DayNumber(date) == getJulianDay(date) + 1

\* Temporal's dayOfWeek: 1 is Monday, 6 Saturday, 7 Sunday
DayOfWeek(dayNumber) == (dayNumber % 7) + 1

isJewishLeapYear(year) == (7 * year + 1) % 19 < 7

\* the days from the calendar's epoch to 1 Tishrei of a year: the molad of
\* Tishrei and the four postponements
getJewishCalendarElapsedDays(year) ==
    LET monthsElapsed == 235 * ((year - 1) \div 19) + 12 * ((year - 1) % 19)
                             + ((7 * ((year - 1) % 19) + 1) \div 19)
        partsElapsed == 204 + 793 * (monthsElapsed % 1080)
        hoursElapsed == 5 + 12 * monthsElapsed + 793 * (monthsElapsed \div 1080)
                            + (partsElapsed \div 1080)
        day == 1 + 29 * monthsElapsed + (hoursElapsed \div 24)
        parts == 1080 * (hoursElapsed % 24) + (partsElapsed % 1080)
        alternativeDay ==
            IF \/ parts >= 19440
               \/ (day % 7 = 2 /\ parts >= 9924 /\ ~isJewishLeapYear(year))
               \/ (day % 7 = 1 /\ parts >= 16789 /\ isJewishLeapYear(year - 1))
            THEN day + 1 ELSE day
    IN  IF alternativeDay % 7 \in {0, 3, 5} THEN alternativeDay + 1 ELSE alternativeDay

\* the day number of 1 Tishrei of a Jewish year
RoshHashanah(year) == getJewishCalendarElapsedDays(year) + 347997

\* getJewishYear() of the JewishDate of a day
getJewishYear(dayNumber, civilYear) ==
    IF dayNumber >= RoshHashanah(civilYear + 3761) THEN civilYear + 3761 ELSE civilYear + 3760

\* the lengths of a year's months from Tishrei on
MonthLengths(year) ==
    LET length == RoshHashanah(year + 1) - RoshHashanah(year)
        cheshvan == IF length % 10 = 5 THEN 30 ELSE 29
        kislev == IF length % 10 = 3 THEN 29 ELSE 30
    IN  <<30, cheshvan, kislev, 29, 30>>
            \o (IF isJewishLeapYear(year) THEN <<30, 29>> ELSE <<29>>)
            \o <<30, 29, 30, 29, 30, 29>>

\* the month, counted from Tishrei, and the day of the month of the day that
\* is so many days after 1 Tishrei
RECURSIVE MonthAndDay(_, _, _)
MonthAndDay(lengths, month, daysIn) ==
    IF daysIn < lengths[month] \/ month = Len(lengths)
    THEN [month |-> month, day |-> daysIn + 1]
    ELSE MonthAndDay(lengths, month + 1, daysIn - lengths[month])

\* JewishDate's number of a month counted from Tishrei: Nissan is 1
JewishMonth(year, month) ==
    LET months == Len(MonthLengths(year))
    IN  IF month <= months - 6 THEN month + 6 ELSE month - (months - 6)

AV == 5
TISHREI == 7

\* the Hebrew date of a civil date: month as Temporal counts it (Tishrei 1),
\* jewishMonth as JewishDate counts it (Nissan 1)
HebrewDate(date) ==
    LET dayNumber == DayNumber(date)
        year == getJewishYear(dayNumber, date.year)
        found == MonthAndDay(MonthLengths(year), 1, dayNumber - RoshHashanah(year))
    IN  [year |-> year, month |-> found.month, day |-> found.day,
         jewishMonth |-> JewishMonth(year, found.month),
         dayOfWeek |-> DayOfWeek(dayNumber)]

\* new JewishDate(year, month, day).getDate(), as a day number, for the two
\* dates the calculator builds: 10 Tishrei, and 9 Av, which is 51 days before
\* the next 1 Tishrei
JewishDateDay(year, month, day) ==
    IF month = TISHREI THEN RoshHashanah(year) + day - 1
    ELSE RoshHashanah(year + 1) - 60 + day

-----------------------------------------------------------------------------
(* Daf Yomi Yerushalmi: YerushalmiYomiCalculator                            *)
(* (src/src/hebrewcalendar/limud/Daf.ts).  Inside the calculation a date is *)
(* its day number.                                                          *)

DAF_YOMI_START_DAY == PlainDate(1980, 2, 2)
WHOLE_SHAS_DAFS == 1554

BLATT_PER_MASECHTA ==
    <<68, 37, 34, 44, 31, 59, 26, 33, 28, 20, 13, 92, 65, 71, 22,
      22, 42, 26, 26, 33, 34, 22, 19, 85, 72, 47, 40, 47, 54, 48, 44, 37, 34, 44, 9, 57, 37, 19, 13>>

\* rangeDates(start, date, end)
rangeDates(start, date, end) == start <= date /\ date <= end

\* getNumOfSpecialDays(start, end); the civil year of a day is not kept, the
\* Jewish year is found from the day number
JewishYearOfDay(dayNumber) ==
    CHOOSE year \in 5680 .. 5760 :
        RoshHashanah(year) <= dayNumber /\ dayNumber < RoshHashanah(year + 1)

RECURSIVE CountSpecialDays(_, _, _, _)
CountSpecialDays(start, end, i, jewishEndYear) ==
    IF i > jewishEndYear THEN 0
    ELSE (IF rangeDates(start, JewishDateDay(i, TISHREI, 10), end) THEN 1 ELSE 0)
             + (IF rangeDates(start, JewishDateDay(i, AV, 9), end) THEN 1 ELSE 0)
             + CountSpecialDays(start, end, i + 1, jewishEndYear)

getNumOfSpecialDays(start, end) ==
    CountSpecialDays(start, end, JewishYearOfDay(start), JewishYearOfDay(end))

\* "while (compare(nextCycle, requested) == -1)": the start of the cycle the
\* requested day is in
RECURSIVE PrevCycle(_, _, _)
PrevCycle(prevCycle, nextCycle, requested) ==
    IF nextCycle < requested
    THEN LET added == nextCycle + WHOLE_SHAS_DAFS
         IN  PrevCycle(nextCycle, added + getNumOfSpecialDays(nextCycle, added), requested)
    ELSE prevCycle

\* "for (let i = 0; i < BLATT_PER_MASECHTA.length; i++)": masechta is i
RECURSIVE FindDafYerushalmi(_, _)
FindDafYerushalmi(index, total) ==
    IF index > Len(BLATT_PER_MASECHTA) THEN Undefined
    ELSE IF total <= BLATT_PER_MASECHTA[index] THEN Daf(index - 1, total + 1)
    ELSE FindDafYerushalmi(index + 1, total - BLATT_PER_MASECHTA[index])

\* the three tests before the calculation, in the order they are made
EarlyExit(date, hebrewDate) ==
    IF hebrewDate.month = 1 /\ hebrewDate.day = 10 THEN "null"
    ELSE IF /\ hebrewDate.jewishMonth = AV
            /\ \/ (hebrewDate.day = 9 /\ hebrewDate.dayOfWeek # 6)
               \/ (hebrewDate.day = 10 /\ hebrewDate.dayOfWeek = 7) THEN "null"
    ELSE IF comparePlainDate(date, DAF_YOMI_START_DAY) = -1 THEN "throw"
    ELSE "daf"

\* getDafYomiYerushalmi(jewishCalendar), date the calendar's civil date
getDafYomiYerushalmi(date) ==
    LET requested == DayNumber(date)
        exit == EarlyExit(date, HebrewDate(date))
        prevCycle == PrevCycle(DayNumber(DAF_YOMI_START_DAY),
                               DayNumber(DAF_YOMI_START_DAY), requested)
        dafNo == requested - prevCycle
        specialDays == getNumOfSpecialDays(prevCycle, requested)
    IN  IF exit = "null" THEN Return(Null, <<>>)
        ELSE IF exit = "throw" THEN Throw("IllegalArgumentException", <<>>)
        ELSE Return(FindDafYerushalmi(1, dafNo - specialDays), <<>>)

GetDafYomiYerushalmi ==
    /\ \E date \in CivilDates :
          last' = Call("YerushalmiYomiCalculator", "getDafYomiYerushalmi", <<date>>,
                       getDafYomiYerushalmi(date))
    /\ UNCHANGED <<geo, cal, frame>>

NextDaf ==
    \/ Fresh /\ GetDafYomiBavli
    \/ Fresh /\ GetDafYomiYerushalmi

SpecDaf == Init /\ [][NextDaf]_vars

-----------------------------------------------------------------------------
(* setDate(date) with each type of its signature.  Day 0 of the model is    *)
(* 1970-01-01, the epoch of Date; a Date and a number of epoch milliseconds *)
(* are instants in ticks; an ISO string yyyy-mm-dd is the number yyyymmdd   *)
(* its digits spell.                                                        *)

PlainDateValue(d) == [tag |-> "PlainDate", v |-> d]
DateValue(instant) == [tag |-> "Date", v |-> instant]
StringValue(digits) == [tag |-> "string", v |-> digits]

\* Temporal.PlainDate.from(string): the day the text names
PlainDateFrom(digits) ==
    DayNumber(PlainDate(digits \div 10000, (digits \div 100) % 100, digits % 100))
        - DayNumber(PlainDate(1970, 1, 1))

\* Temporal.Instant.fromEpochMilliseconds(ms).toZonedDateTimeISO(zone)
\* .toPlainDate(): the civil day of an instant in a time zone
ToPlainDate(instant, g) == (instant + g.rawOffset * HOUR_NANOS) \div DAY

\* setDate(date): the calendar after the call; no branch takes a number
setDate(self, date) ==
    IF date.tag = "PlainDate" THEN [self EXCEPT !.date = date.v]
    ELSE IF date.tag = "Date"
    THEN [self EXCEPT !.date = ToPlainDate(date.v, getGeoLocation(self))]
    ELSE IF date.tag = "string" THEN [self EXCEPT !.date = PlainDateFrom(date.v)]
    ELSE self

\* the dates a caller passes: the days of the model as PlainDate and as text,
\* and two instants of each day, 02:00 and 22:00 UTC, as Date and as number
Instants == {d * DAY + h * HOUR_NANOS : d \in 1 .. MaxDay - 1, h \in {2, 22}}

DateArgs ==
    {PlainDateValue(d) : d \in Dates}
        \cup {StringValue(19700101 + d) : d \in Dates}
        \cup {DateValue(instant) : instant \in Instants}
        \cup {Num(instant) : instant \in Instants}

SetDateOfType(x) ==
    /\ Exists(x)
    /\ \E date \in DateArgs :
          /\ cal' = [cal EXCEPT ![x] = setDate(cal[x], date)]
          /\ last' = Call(x, "setDate", <<date>>, Return(Undefined, <<>>))
    /\ UNCHANGED <<geo, frame>>

\* a calendar whose date is set, again and again, between changes of its
\* GeoLocation, of its calculator and of its longitude
NextDate ==
    \/ SetDateOfType("a")
    \/ SetGeoLocation("a")
    \/ SetAstronomicalCalculator("a")
    \/ SetLongitude("a")

SpecDate == Init /\ [][NextDate]_vars

-----------------------------------------------------------------------------
(* getZmanimJson(options) (src/unnamed/part_005).  The calendar it builds   *)
(* is kept as the fields the JSON metadata shows; the clock is read twice,  *)
(* by the constructor of the calendar and by getZmanimJson itself.          *)

TextValue(text) == [tag |-> "string", v |-> 0, text |-> text]
BooleanValue(b) == [tag |-> "boolean", v |-> IF b THEN 1 ELSE 0]

\* the truth of a value under "||" and "? :"
Truthy(x) ==
    IF x.tag \in {"undefined", "null", "NaN"} THEN FALSE
    ELSE IF x.tag \in {"number", "boolean"} THEN x.v # 0
    ELSE IF x.tag = "string" /\ "text" \in DOMAIN x THEN x.text # ""
    ELSE TRUE

\* "a || b"
Or(a, b) == IF Truthy(a) THEN a ELSE b

\* the raw offset, in hours, of the zones a caller names
TimeZoneRawOffset(timeZoneId) ==
    IF timeZoneId = "America/New_York" THEN -5
    ELSE IF timeZoneId = "Pacific/Fiji" THEN 12
    ELSE 0

\* new GeoLocation(name, latitude, longitude, elevation, timeZoneId)
NewGeoLocation(name, latitude, longitude, elevation, timeZoneId) ==
    [locationName |-> name, latitude |-> latitude, longitude |-> longitude,
     elevation |-> elevation, timeZoneId |-> timeZoneId,
     rawOffset |-> TimeZoneRawOffset(timeZoneId)]

\* setDate on the calendar getZmanimJson holds, whose GeoLocation is its own
\* object and in no calendar of the heap
SetDateOn(date, geoLocation, value) ==
    IF value.tag = "PlainDate" THEN value.v
    ELSE IF value.tag = "Date" THEN ToPlainDate(value.v, geoLocation)
    ELSE IF value.tag = "string" THEN PlainDateFrom(value.v)
    ELSE date

\* getZmanimJson(options): the metadata of ZmanimFormatter.toJSON(calendar);
\* constructed and called are Temporal.Now.plainDateISO() as the constructor
\* and as getZmanimJson read it
getZmanimJson(options, constructed, called) ==
    LET geoLocation == NewGeoLocation(Or(options.locationName, Null), options.latitude,
                                      options.longitude, Or(options.elevation, Num(0)),
                                      options.timeZoneId)
        type == IF Truthy(options.complexZmanim)
                THEN "com.kosherjava.zmanim.ComplexZmanimCalendar"
                ELSE "com.kosherjava.zmanim.ZmanimCalendar"
        date == SetDateOn(constructed, geoLocation, Or(options.date, PlainDateValue(called)))
    IN  [type |-> type, date |-> date, location |-> geoLocation.locationName,
         latitude |-> geoLocation.latitude, longitude |-> geoLocation.longitude,
         elevation |-> geoLocation.elevation, timeZoneID |-> geoLocation.timeZoneId]

\* the options a caller passes
OptionsArgs ==
    [date : {Undefined} \cup DateArgs,
     timeZoneId : {"America/New_York", "Pacific/Fiji"},
     locationName : {Undefined, TextValue("Lakewood"), TextValue("")},
     latitude : {40},
     longitude : {-74, 178},
     elevation : {Undefined, Num(0), Num(10)},
     complexZmanim : {Undefined, BooleanValue(FALSE), BooleanValue(TRUE)}]

\* the clock at the two readings: midnight may pass between them
Clocks == {[constructed |-> d, called |-> e] : d \in Dates, e \in Dates} 

GetZmanimJson ==
    /\ \E options \in OptionsArgs, clock \in {k \in Clocks : k.called - k.constructed \in {0, 1}} :
          last' = Call("kosher-zmanim", "getZmanimJson", <<options, clock>>,
                       Return(getZmanimJson(options, clock.constructed, clock.called), <<>>))
    /\ UNCHANGED <<geo, cal, frame>>

NextJson ==
    \/ Fresh /\ GetZmanimJson

SpecJson == Init /\ [][NextJson]_vars











-----------------------------------------------------------------------------
(* equals(object).  A calculator of the model is an object: "NOAA" is the   *)
(* NOAACalculator the constructor of the calendar a made, "NOAA2" the one   *)
(* the constructor of a second calendar makes, the others are the objects   *)
(* a caller passes to setAstronomicalCalculator.                            *)

\* the class of a calculator object
CalculatorClass(k) == IF k \in {"NOAA", "NOAA2"} THEN "NOAACalculator" ELSE k

\* two calculators compared by class, as an equals() of their own would
SameCalculatorClass(one, two) == CalculatorClass(one) = CalculatorClass(two)

\* "this.getAstronomicalCalculator() === aCal.getAstronomicalCalculator()"
SameCalculator(one, two) == one = two

\* GeoLocation.equals(other): structural over all fields
GeoLocationEquals(one, two) == one = two

\* the objects a caller passes to equals: a calendar, or something else
EqualsArgs == CalIds \cup {"not a calendar"}

\* equals(object): this is the calendar x
equals(x, object) ==
    IF x = object THEN TRUE
    ELSE IF object \notin CalIds THEN FALSE
    ELSE /\ getDate(cal[x]) = getDate(cal[object])
         /\ GeoLocationEquals(getGeoLocation(cal[x]), getGeoLocation(cal[object]))
         /\ SameCalculator(getAstronomicalCalculator(cal[x]),
                           getAstronomicalCalculator(cal[object]))

Equals(x) ==
    /\ Exists(x)
    /\ \E object \in EqualsArgs :
          /\ object \in CalIds => Exists(object)
          /\ last' = Call(x, "equals", <<object>>,
                          Return(BooleanValue(equals(x, object)), <<>>))
    /\ UNCHANGED <<geo, cal, frame>>

\* c = new AstronomicalCalendar(geoLocation), then c.setDate(date): the
\* constructor makes a NOAACalculator of its own
ConstructSeparately ==
    /\ ~Exists("c")
    /\ \E r \in GeoRefs, d \in Dates :
          cal' = [cal EXCEPT !["c"] =
                     [Construct(r, d) EXCEPT !.astronomicalCalculator = "NOAA2"]]
    /\ last' = Call("c", "constructor", <<>>, Return(Undefined, <<>>))
    /\ UNCHANGED <<geo, frame>>

\* two GeoLocation objects built from the same arguments, and the calendar a
InitEquals ==
    /\ geo = [r \in GeoRefs |-> Lakewood]
    /\ cal = [x \in CalIds |-> IF x = "a" THEN Construct("g1", 0) ELSE NoCal]
    /\ last = Call("a", "constructor", <<>>, Return(Undefined, <<>>))
    /\ frame = NoFrame

\* a second calendar, cloned or constructed, the setters, and equals
NextEquals ==
    \/ Clone
    \/ ConstructSeparately
    \/ \E x \in CalIds : Mutators(x)
    \/ \E x \in CalIds : Equals(x)

SpecEquals == InitEquals /\ [][NextEquals]_vars



-----------------------------------------------------------------------------
(* HiloulahYomiCalculator.getHiloulah, with the data sets bundled (the      *)
(* static method) and with the data sets fetched by init() (the async       *)
(* method).  A data set maps the keys MMdd it has to the array of its       *)
(* entries; an entry is an object, named here by a string.                  *)

ADAR == 12

Array(elements) == [tag |-> "Array", v |-> elements]

\* n.toString().padStart(2, '0') for n in 0 .. 99
DigitOf(n) == <<"0", "1", "2", "3", "4", "5", "6", "7", "8", "9">>[n + 1]
PadStart2(n) == IF n < 10 THEN "0" \o DigitOf(n) ELSE DigitOf(n \div 10) \o DigitOf(n % 10)

\* hiloulah_en[key]: undefined for a key the data set does not have
Lookup(table, key) == IF key \in DOMAIN table THEN Array(table[key]) ELSE Undefined

\* key in this.hiloulot_en ? this.hiloulot_en[key] : []
LookupOrEmpty(table, key) == IF key \in DOMAIN table THEN Array(table[key]) ELSE Array(<<>>)

\* the elements of an array in order, each object once
RECURSIVE InsertionOrder(_, _)
InsertionOrder(elements, seen) ==
    IF elements = <<>> THEN seen
    ELSE InsertionOrder(Tail(elements),
                        IF \E i \in 1 .. Len(seen) : seen[i] = Head(elements)
                        THEN seen ELSE Append(seen, Head(elements)))

\* new Set(...arguments): the constructor takes one iterable, its first
\* argument, and ignores the others; undefined gives the empty set
NewSet(arguments) ==
    IF arguments = <<>> \/ arguments[1].tag # "Array" THEN <<>>
    ELSE InsertionOrder(arguments[1].v, <<>>)

\* Array.from(set)
ArrayFrom(set) == Array(set)

\* the body the two methods share, each with its own lookup
Hiloulah(fetched, dataSets, jewishCalendar) ==
    LET Get(table, key) == IF fetched THEN LookupOrEmpty(table, key) ELSE Lookup(table, key)
        dd == PadStart2(jewishCalendar.day)
        key == PadStart2(jewishCalendar.month) \o dd
        keys == <<"12" \o dd, "13" \o dd>>
        OfBoth(table) == [i \in 1 .. 2 |-> Get(table, keys[i])]
        adarOfPlainYear == /\ ~isJewishLeapYear(jewishCalendar.year)
                           /\ jewishCalendar.month = ADAR
    IN [tag |-> "object", v |-> 0,
        en |-> IF adarOfPlainYear THEN ArrayFrom(NewSet(OfBoth(dataSets.en)))
               ELSE Get(dataSets.en, key),
        he |-> IF adarOfPlainYear THEN ArrayFrom(NewSet(OfBoth(dataSets.he)))
               ELSE Get(dataSets.he, key)]

getHiloulah(dataSets, jewishCalendar) == Hiloulah(FALSE, dataSets, jewishCalendar)

\* init() has fetched the data sets before the key is looked up
getHiloulahAsync(dataSets, jewishCalendar) == Hiloulah(TRUE, dataSets, jewishCalendar)

\* data sets: entries for 5 Adar and 5 Adar II, for one of them, for neither
DataSets ==
    {[en |-> [k \in {"1205", "1305", "0705"} |->
                 IF k = "1205" THEN <<"Moshe", "Yehoshua">>
                 ELSE IF k = "1305" THEN <<"Shmuel">> ELSE <<"David">>],
      he |-> [k \in {"1205", "1305"} |-> IF k = "1205" THEN <<"mem">> ELSE <<"shin", "tav">>]],
     [en |-> [k \in {"1305", "0114"} |-> IF k = "1305" THEN <<"Shmuel">> ELSE <<"Aharon">>],
      he |-> [k \in {"1205"} |-> <<"mem">>]],
     [en |-> [k \in {"0705"} |-> <<"David">>],
      he |-> [k \in {"1314", "1214"} |-> IF k = "1314" THEN <<"ayin">> ELSE <<>>]]}

\* a leap year and a plain year; Adar II is a month of the leap year only
JewishDates ==
    {jd \in [year : {5784, 5785}, month : 1 .. 13, day : {5, 14}] :
        jd.month = 13 => isJewishLeapYear(jd.year)}

GetHiloulah ==
    /\ \E dataSets \in DataSets, jewishCalendar \in JewishDates :
          last' = Call("HiloulahYomiCalculator", "getHiloulah", <<dataSets, jewishCalendar>>,
                       Return(getHiloulah(dataSets, jewishCalendar), <<>>))
    /\ UNCHANGED <<geo, cal, frame>>

GetHiloulahAsync ==
    /\ \E dataSets \in DataSets, jewishCalendar \in JewishDates :
          last' = Call("HiloulahYomiCalculator", "getHiloulahAsync", <<dataSets, jewishCalendar>>,
                       Return(getHiloulahAsync(dataSets, jewishCalendar), <<>>))
    /\ UNCHANGED <<geo, cal, frame>>

NextHiloulah ==
    \/ Fresh /\ GetHiloulah
    \/ Fresh /\ GetHiloulahAsync

SpecHiloulah == Init /\ [][NextHiloulah]_vars

-----------------------------------------------------------------------------
(* Properties.  The calendar the last call was made on, its arguments and   *)
(* its outcome.                                                             *)

Self == cal[last.self]
Arg(i) == last.args[i]
Returned == last.res.out = "return"
Threw(err) == last.res.out = "throw" /\ last.res.err = err
NoQuery == last.res.queries = <<>>

\* what the calculator of the calendar answers to a logged query
Answered(q) ==
    IF q.fn = "getUTCSunrise"
    THEN CalcUTCSunrise(Self.astronomicalCalculator, q.date, geo[q.geoLocation],
                        q.zenith, q.adjustForElevation)
    ELSE IF q.fn = "getUTCSunset"
    THEN CalcUTCSunset(Self.astronomicalCalculator, q.date, geo[q.geoLocation],
                       q.zenith, q.adjustForElevation)
    ELSE CalcUTCNoon(Self.astronomicalCalculator, q.date, geo[q.geoLocation])

\* C1: getSunTransit(startOfDay, endOfDay) throws IllegalArgumentException
\* whenever exactly one of the two bounds is supplied, whichever it is, and
\* then neither queries the calculator nor returns a timestamp.
C1_TransitThrowsOnLoneBound ==
    (last.op = "getSunTransit" /\ IsZdt(Arg(1)) # IsZdt(Arg(2)))
        => (Threw("IllegalArgumentException") /\ NoQuery)

\* the half of C1 the code keeps: a lone startOfDay throws, with no query
C1_LoneStartThrows ==
    (last.op = "getSunTransit" /\ IsZdt(Arg(1)) /\ ~IsZdt(Arg(2)))
        => (Threw("IllegalArgumentException") /\ NoQuery)

\* what a caller observes of a calendar: its date, the field values of its
\* GeoLocation, its calculator and the results of its queries
Observed(x) ==
    [date |-> getDate(cal[x]),
     geoLocation |-> getGeoLocation(cal[x]),
     astronomicalCalculator |-> getAstronomicalCalculator(cal[x]),
     sunrise |-> getSunrise(cal[x]).val,
     sunset |-> getSunset(cal[x]).val,
     transit |-> getSunTransit(cal[x], Undefined, Undefined).val]

\* C2: after c = a.clone() the two calendars share no mutable state: a
\* mutation made through c (setDate, setGeoLocation,
\* setAstronomicalCalculator, c.getGeoLocation().setLongitude) leaves the
\* date, the GeoLocation field values and the query results of a as they
\* were, and a mutation made through a leaves those of c as they were.
C2_CloneSharesNoState ==
    [][(Exists("c") /\ last'.op \in MutatorOps)
          => /\ last'.self = "c" => Observed("a")' = Observed("a")
             /\ last'.self = "a" => Observed("c")' = Observed("c")]_vars

\* what does hold of the clone: the fields the calendar itself owns (date,
\* GeoLocation reference, calculator selection) are independent
C2_OwnFieldsIndependent ==
    [][(Exists("c") /\ last'.op \in MutatorOps)
          => /\ last'.self = "c" => cal'["a"] = cal["a"]
             /\ last'.self = "a" => cal'["c"] = cal["c"]]_vars

\* the hours a getLocalMeanTime call accepts: 0 <= hours < 24
ValidHours(h) == h.tag = "number" /\ 0 <= h.v /\ h.v < 24 * HOUR_NANOS

\* C3: getLocalMeanTime(hours) throws IllegalArgumentException for every
\* hours that does not satisfy 0 <= hours < 24 (24, -0.01 and NaN among
\* them) before any computation, and does not throw for any other hours.
C3_LocalMeanTimeRange ==
    last.op = "getLocalMeanTime"
        => IF ValidHours(Arg(1))
           THEN Returned
           ELSE Threw("IllegalArgumentException")

\* the part of C3 that holds: numbers out of the range throw, numbers in
\* the range do not
C3_NumbersRangeChecked ==
    (last.op = "getLocalMeanTime" /\ Arg(1).tag = "number")
        => IF ValidHours(Arg(1))
           THEN Returned /\ IsZdt(last.res.val)
           ELSE Threw("IllegalArgumentException")

\* the methods that return the time of a sunrise or sunset event
RiseSetOps ==
    {"getSunrise", "getSunset", "getSeaLevelSunrise", "getSeaLevelSunset",
     "getSunriseOffsetByDegrees", "getSunsetOffsetByDegrees",
     "getBeginCivilTwilight", "getBeginNauticalTwilight",
     "getBeginAstronomicalTwilight", "getEndCivilTwilight",
     "getEndNauticalTwilight", "getEndAstronomicalTwilight"}

\* C4: each sunrise, sunset, offset-by-degrees and twilight method returns
\* null, raising nothing, whenever the calculator answers NaN to its query,
\* and returns a timestamp whenever the calculator answers a number.
C4_NaNBecomesNull ==
    last.op \in RiseSetOps
        => /\ Returned
           /\ Len(last.res.queries) = 1
           /\ IF IsNaN(Answered(last.res.queries[1]))
              THEN last.res.val = Null
              ELSE IsZdt(last.res.val)

\* reached: polar night, the twilight query answered NaN and null returned
C4_Witness ==
    /\ last.op = "getBeginCivilTwilight"
    /\ IsNaN(Answered(last.res.queries[1]))
    /\ last.res.val = Null
    /\ getGeoLocation(Self).latitude = 78

\* the calendar of the last call, on the following day
Tomorrow == [Self EXCEPT !.date = @ + 1]

\* the calculator has no solar noon for the adjusted date of a calendar
NoonIsNaN(self) ==
    IsNaN(CalcUTCNoon(getAstronomicalCalculator(self), getAdjustedDate(self),
                      getGeoLocation(self)))

NoArgs == Arg(1) = Undefined /\ Arg(2) = Undefined

\* the bounds a getTemporalHour call works on: the argument, or the
\* sea-level sunrise and sunset when the argument is left out
StartOfDay == IF Arg(1) = Undefined THEN getSeaLevelSunrise(Self).val ELSE Arg(1)
EndOfDay == IF Arg(2) = Undefined THEN getSeaLevelSunset(Self).val ELSE Arg(2)

\* C5: an unattainable result never becomes an exception of a dependent
\* operation: with no solar noon on the stored or on the following date
\* getSunTransit() and getSolarMidnight() return null, and with a null
\* sea-level sunrise or sunset getTemporalHour() returns an absent value.
C5_AbsentNeverRaised ==
    /\ (last.op = "getSunTransit" /\ NoArgs /\ NoonIsNaN(Self))
          => (Returned /\ last.res.val = Null)
    /\ (last.op = "getSolarMidnight" /\ (NoonIsNaN(Self) \/ NoonIsNaN(Tomorrow)))
          => (Returned /\ last.res.val = Null)
    /\ (last.op = "getTemporalHour" /\ NoArgs /\ (StartOfDay = Null \/ EndOfDay = Null))
          => (Returned /\ last.res.val \in {Null, Undefined})

\* the two thirds of C5 the code keeps: getSunTransit() and getTemporalHour()
C5_TransitAndHourAbsent ==
    /\ (last.op = "getSunTransit" /\ NoArgs /\ NoonIsNaN(Self))
          => (Returned /\ last.res.val = Null)
    /\ (last.op = "getTemporalHour" /\ NoArgs /\ (StartOfDay = Null \/ EndOfDay = Null))
          => (Returned /\ last.res.val \in {Null, Undefined})

C7_TemporalHourNull ==
    (last.op = "getTemporalHour" /\ (StartOfDay = Null \/ EndOfDay = Null))
        => (Returned /\ last.res.val = Null)

\* C8: for bounds start <= end, getSunTransit(start, end) returns
\* start + 6 * getTemporalHour(start, end) and queries no calculator; the
\* result lies in [start, end], at most 6 ticks before the midpoint and
\* never after it; with no bounds it is the calculator's UTC noon on the
\* adjusted date.
C8_TransitOfBounds ==
    last.op = "getSunTransit"
        => /\ (IsZdt(Arg(1)) /\ IsZdt(Arg(2)) /\ Arg(1).v <= Arg(2).v)
                 => LET s == Arg(1).v
                        e == Arg(2).v
                        r == last.res.val.v
                    IN  /\ Returned /\ NoQuery /\ IsZdt(last.res.val)
                        /\ r = s + 6 * getTemporalHour(Self, Arg(1), Arg(2)).val.v
                        /\ s <= r /\ r <= e
                        /\ 2 * r <= s + e /\ s + e - 2 * r <= 12
           /\ NoArgs
                 => /\ Returned
                    /\ last.res.queries =
                          <<Query("getUTCNoon", getAdjustedDate(Self), Self.geoLocation,
                                  getGeoLocation(Self), 0, FALSE)>>
                    /\ LET noon == Answered(last.res.queries[1])
                       IN  IF IsNaN(noon)
                           THEN last.res.val = Null
                           ELSE last.res.val = Zdt(getAdjustedDate(Self) * DAY + noon.v)

\* reached: bounds 0 and 13, a transit at 6, before the midpoint 6.5
C8_Witness ==
    /\ last.op = "getSunTransit"
    /\ Arg(1) = Zdt(0) /\ Arg(2) = Zdt(13)
    /\ last.res.val = Zdt(6)

\* C9: getSunrise and getSunset query the calculator at zenith 90 with the
\* elevation flag true, getSeaLevelSunrise and getSeaLevelSunset at zenith
\* 90 with the flag false; both pass the adjusted date and the calendar's
\* GeoLocation.
C9_ElevationFlags ==
    /\ last.op \in {"getSunrise", "getSeaLevelSunrise"}
          => last.res.queries =
                <<Query("getUTCSunrise", getAdjustedDate(Self), Self.geoLocation,
                        getGeoLocation(Self), 90, last.op = "getSunrise")>>
    /\ last.op \in {"getSunset", "getSeaLevelSunset"}
          => last.res.queries =
                <<Query("getUTCSunset", getAdjustedDate(Self), Self.geoLocation,
                        getGeoLocation(Self), 90, last.op = "getSunset")>>

\* reached: a sea-level sunset asked above sea level, earlier than the
\* elevation-adjusted sunset
C9_Witness ==
    /\ last.op = "getSeaLevelSunset"
    /\ getGeoLocation(Self).elevation > 0
    /\ last.res.queries[1].adjustForElevation = FALSE
    /\ last.res.val.v < getSunset(Self).val.v

\* sunrise, solar noon and sunset all exist on the adjusted date
NonPolar(self) ==
    /\ HasEvent(getGeoLocation(self), GEOMETRIC_ZENITH, TRUE)
    /\ ~NoonIsNaN(self)

\* C10: where sunrise, solar noon and sunset exist, the timestamps of
\* getSunrise(), getSunTransit() and getSunset() are in this order, at every
\* longitude, also when an event falls next to the UTC day boundary.
C10_SunriseTransitSunset ==
    (/\ \/ last.op \in {"getSunrise", "getSunset"}
        \/ last.op = "getSunTransit" /\ NoArgs
     /\ NonPolar(Self))
        => /\ getSunrise(Self).val.v < getSunTransit(Self, Undefined, Undefined).val.v
           /\ getSunTransit(Self, Undefined, Undefined).val.v < getSunset(Self).val.v

\* the saturation of the dip is exact: at MaxDip units from the horizon, and
\* so beyond, the calculator has no event
DipSaturatedIsNull ==
    (frame.pc = "while" /\ (frame.degrees = MaxDip \/ frame.degrees = -MaxDip))
        => frame.offsetByDegrees = Null

\* C11: getSunriseSolarDipFromOffset(minutes) and
\* getSunsetSolarDipFromOffset(minutes) terminate for every finite minutes,
\* every location and every date: a search that is running comes to its end,
\* also when the event stops existing as the dip grows and when the
\* sea-level event does not exist at all.
C11_DipSearchTerminates == (frame.pc # "idle") ~> (frame.pc = "idle")

\* what holds of C11: where the sea-level event exists, offsets of up to 90
\* minutes either way are found
C11_ModestOffsetsTerminate ==
    (/\ frame.pc = "while" /\ frame.degrees = 0
     /\ frame.offsetByDegrees # Null
     /\ frame.minutes >= -90 /\ frame.minutes <= 90)
        ~> (frame.pc = "idle")

\* the time the event moves when the zenith moves by one search increment
IncrementTime(self) ==
    HalfArc(getGeoLocation(self), GEOMETRIC_ZENITH + SunriseIncrementor, FALSE)
        - HalfArc(getGeoLocation(self), GEOMETRIC_ZENITH, FALSE)

\* the distance of two instants
Distance(one, two) == IF one >= two THEN one - two ELSE two - one

\* a sunrise search that returned a dip for an offset of -90 .. 90 minutes,
\* where getSunrise() is defined
SunriseDipFound ==
    /\ last.op = "getSunriseSolarDipFromOffset"
    /\ Returned
    /\ last.res.val.tag = "number"
    /\ Arg(1).v >= -90 /\ Arg(1).v <= 90
    /\ getSunrise(Self).val # Null

\* C12: inverse consistency of the sunrise search: for m in [-90, 90], where
\* sunrise is defined, getSunriseOffsetByDegrees(90 + dip(m)) is within the
\* time of one search increment of getSunrise() minus m minutes.
C12_DipInverse ==
    SunriseDipFound
        => LET back == getSunriseOffsetByDegrees(Self, GEOMETRIC_ZENITH + last.res.val.v).val
               target == getSunrise(Self).val.v - Arg(1).v * MINUTE
           IN  /\ IsZdt(back)
               /\ Distance(back.v, target) <= IncrementTime(Self)

\* what holds of C12: at sea level, where getSunrise() and
\* getSeaLevelSunrise() are one instant
C12_SeaLevelInverse ==
    (SunriseDipFound /\ getGeoLocation(Self).elevation = 0)
        => LET back == getSunriseOffsetByDegrees(Self, GEOMETRIC_ZENITH + last.res.val.v).val
               target == getSeaLevelSunrise(Self).val.v - Arg(1).v * MINUTE
           IN  /\ IsZdt(back)
               /\ Distance(back.v, target) <= IncrementTime(Self)

\* the solar transits of the stored date and of the following date
Transit0 == getSunTransit(Self, Undefined, Undefined).val
Transit1 == getSunTransit(Tomorrow, Undefined, Undefined).val

\* C13: getSolarMidnight() returns T0 + trunc((T1 - T0) / 2) ticks, T0 the
\* solar transit of the stored date and T1 that of the following date at the
\* same GeoLocation and calculator, both defined; so T0 <= result <= T1; and
\* the call leaves the stored date of the calendar as it was.
C13_SolarMidnightMidpoint ==
    /\ []((last.op = "getSolarMidnight" /\ IsZdt(Transit0) /\ IsZdt(Transit1))
            => /\ Returned
               /\ last.res.val = Zdt(Transit0.v + Trunc(Transit1.v - Transit0.v, 2))
               /\ Transit0.v <= last.res.val.v
               /\ last.res.val.v <= Transit1.v)
    /\ [][last'.op = "getSolarMidnight"
            => cal'[last'.self].date = cal[last'.self].date]_vars

\* reached: a midnight strictly between two transits an odd number of ticks
\* apart
C13_Witness ==
    /\ last.op = "getSolarMidnight"
    /\ IsZdt(Transit0) /\ IsZdt(Transit1)
    /\ (Transit1.v - Transit0.v) % 2 = 1
    /\ Transit0.v < last.res.val.v /\ last.res.val.v < Transit1.v

\* C14: getSunLowerTransit() asks the calculator for solar noon at the
\* antipodal longitude: for a stored longitude L the longitude passed is
\* L + 180 when L + 180 <= 180 and L - 180 otherwise, within [-180, 180];
\* the date passed is the adjusted date less one day exactly when the
\* longitude wrapped; and the call leaves the stored GeoLocation as it was.
C14_LowerTransitAntipodal ==
    /\ [](last.op = "getSunLowerTransit"
            => LET L == getGeoLocation(Self).longitude
                   q == last.res.queries[1]
               IN  /\ Len(last.res.queries) = 1
                   /\ q.fn = "getUTCNoon"
                   /\ q.longitude = IF L + 180 <= 180 THEN L + 180 ELSE L - 180
                   /\ -180 <= q.longitude /\ q.longitude <= 180
                   /\ q.date = IF L + 180 <= 180
                               THEN getAdjustedDate(Self)
                               ELSE getAdjustedDate(Self) - 1)
    /\ [][last'.op = "getSunLowerTransit" => geo' = geo]_vars

\* reached: the lower transit asked at longitude 180, the antipode 0 and the
\* day before passed to the calculator
C14_Witness ==
    /\ last.op = "getSunLowerTransit"
    /\ getGeoLocation(Self).longitude = 180
    /\ last.res.queries[1].longitude = 0
    /\ last.res.queries[1].date = getAdjustedDate(Self) - 1

\* what a query returns on the calendar as it is now
Recomputed ==
    CASE last.op = "getSunrise" -> getSunrise(Self)
      [] last.op = "getSeaLevelSunrise" -> getSeaLevelSunrise(Self)
      [] last.op = "getSunset" -> getSunset(Self)
      [] last.op = "getSeaLevelSunset" -> getSeaLevelSunset(Self)
      [] last.op = "getSunriseOffsetByDegrees" -> getSunriseOffsetByDegrees(Self, Arg(1).v)
      [] last.op = "getSunsetOffsetByDegrees" -> getSunsetOffsetByDegrees(Self, Arg(1).v)
      [] last.op = "getBeginCivilTwilight" -> getBeginCivilTwilight(Self)
      [] last.op = "getBeginNauticalTwilight" -> getBeginNauticalTwilight(Self)
      [] last.op = "getBeginAstronomicalTwilight" -> getBeginAstronomicalTwilight(Self)
      [] last.op = "getEndCivilTwilight" -> getEndCivilTwilight(Self)
      [] last.op = "getEndNauticalTwilight" -> getEndNauticalTwilight(Self)
      [] last.op = "getEndAstronomicalTwilight" -> getEndAstronomicalTwilight(Self)
      [] last.op = "getTemporalHour" -> getTemporalHour(Self, Arg(1), Arg(2))
      [] last.op = "getSunTransit" -> getSunTransit(Self, Arg(1), Arg(2))
      [] last.op = "getSolarMidnight" -> getSolarMidnight(Self)
      [] last.op = "getSunLowerTransit" -> getSunLowerTransit(Self)
      [] last.op = "getLocalMeanTime" -> getLocalMeanTime(Self, Arg(1))
      [] OTHER -> last.res

C15_WitnessDip ==
    /\ last.op = "getSunsetSolarDipFromOffset"
    /\ Self.date = MaxDay
    /\ last.res.val.tag = "number" /\ last.res.val.v > 0

\* C16: on a fixed date and location getLocalMeanTime(h) returns a timestamp
\* for every h in [0, 24), and two different valid hours never give the same
\* timestamp, whatever the raw offset of the time zone, also when h less the
\* offset is negative or 24 and more.
C16_LocalMeanTimeDistinct ==
    (last.op = "getLocalMeanTime" /\ ValidHours(Arg(1)))
        => /\ Returned
           /\ IsZdt(last.res.val)
           /\ \A h \in HoursArgs :
                 (ValidHours(h) /\ h # Arg(1))
                     => getLocalMeanTime(Self, h).val # last.res.val

\* what holds of C16: a timestamp is returned for every valid hour, and the
\* hours 0 and 23.999999 give two timestamps
C16_EndsDistinct ==
    (last.op = "getLocalMeanTime" /\ ValidHours(Arg(1)))
        => /\ Returned
           /\ IsZdt(last.res.val)
           /\ getLocalMeanTime(Self, Num(0)).val
                 # getLocalMeanTime(Self, Num(24 * HOUR_NANOS - 1)).val

\* the sentences by which an error names the API to use in the place of the
\* method: ZmanimFormatter.toJSON for toJSON, ZmanimFormatter.toXML (the
\* method's documentation) or ZmanimFormatter.toJSON (the README) for
\* toString
NamesReplacement(message) ==
    \E i \in 1 .. Len(message) :
        message[i] \in {"Use ZmanimFormatter.toJSON(astronomicalCalendar) instead.",
                        "Use ZmanimFormatter.toXML(astronomicalCalendar) instead."}

\* C17: toString() and toJSON() raise UnsupportedError on every call, in
\* every state, change no state, and the error each raises names the API to
\* use in its place.
C17_UnsupportedNamesReplacement ==
    /\ [](last.op \in {"toString", "toJSON"}
            => /\ Threw("UnsupportedError")
               /\ NamesReplacement(last.res.message))
    /\ [][last'.op \in {"toString", "toJSON"} => (cal' = cal /\ geo' = geo)]_vars

\* what holds of C17: both raise UnsupportedError and change no state, and
\* the error of toJSON names ZmanimFormatter.toJSON
C17_UnsupportedRaised ==
    /\ [](last.op \in {"toString", "toJSON"} => Threw("UnsupportedError"))
    /\ [](last.op = "toJSON" => NamesReplacement(last.res.message))
    /\ [][last'.op \in {"toString", "toJSON"} => (cal' = cal /\ geo' = geo)]_vars

\* the days from the start of the cycle a date falls in: cycles of 2702 days
\* from 1923-09-11, of 2711 days from 1975-06-24
DayOfCycle(date) ==
    IF comparePlainDate(date, shekalimChangeDate) = -1
    THEN (getJulianDay(date) - dafYomiJulianStartDay) % 2702
    ELSE (getJulianDay(date) - shekalimJulianChangeDay) % 2711

\* the daf of a date when Shekalim is counted as so many blatt
DafCounting(shekalim, date) ==
    FindDaf([blattPerMasechta EXCEPT ![5] = shekalim], 1, 0, DayOfCycle(date))

\* C18: getDafYomiBavli counts Shekalim as 13 blatt for every date of the
\* first seven cycles, 1923-09-11 to 1975-06-23, the seventh among them, and
\* as 22 blatt from 1975-06-24 on: the daf returned is the daf of that count.
C18_ShekalimThirteenThenTwentyTwo ==
    (last.op = "getDafYomiBavli" /\ comparePlainDate(Arg(1), dafYomiStartDate) # -1)
        => /\ Returned
           /\ last.res.val =
                 IF comparePlainDate(Arg(1), shekalimChangeDate) = -1
                 THEN DafCounting(13, Arg(1))
                 ELSE DafCounting(22, Arg(1))

\* what holds of C18: the first six cycles and the first day of the seventh
\* (1968-01-30) count 13 blatt, the dates from 1975-06-24 on count 22
C18_SixCyclesThirteen ==
    (/\ last.op = "getDafYomiBavli"
     /\ comparePlainDate(Arg(1), dafYomiStartDate) # -1
     /\ \/ comparePlainDate(Arg(1), PlainDate(1968, 1, 30)) # 1
        \/ comparePlainDate(Arg(1), shekalimChangeDate) # -1)
        => /\ Returned
           /\ last.res.val =
                 IF comparePlainDate(Arg(1), shekalimChangeDate) = -1
                 THEN DafCounting(13, Arg(1))
                 ELSE DafCounting(22, Arg(1))

\* C19: getDafYomiBavli throws IllegalArgumentException for every date before
\* 1923-09-11 and returns a Daf, throwing nothing, for every date from
\* 1923-09-11 on.
C19_BavliStartDate ==
    last.op = "getDafYomiBavli"
        => IF comparePlainDate(Arg(1), dafYomiStartDate) = -1
           THEN Threw("IllegalArgumentException")
           ELSE Returned /\ last.res.val.tag = "Daf"

\* reached: the first day of the first cycle, Berachos 2
C19_Witness ==
    /\ last.op = "getDafYomiBavli"
    /\ Arg(1) = dafYomiStartDate
    /\ last.res.val = Daf(0, 2)

\* reached: the day before, refused
C19_WitnessBefore ==
    /\ last.op = "getDafYomiBavli"
    /\ Arg(1) = PlainDate(1923, 9, 10)
    /\ Threw("IllegalArgumentException")

\* the days with no daf: Yom Kippur, and Tisha B'Av on the day it is kept
NoDafDay(date) ==
    LET hebrewDate == HebrewDate(date)
    IN  \/ hebrewDate.jewishMonth = TISHREI /\ hebrewDate.day = 10
        \/ /\ hebrewDate.jewishMonth = AV
           /\ \/ (hebrewDate.day = 9 /\ hebrewDate.dayOfWeek # 6)
              \/ (hebrewDate.day = 10 /\ hebrewDate.dayOfWeek = 7)

\* C20: getDafYomiYerushalmi throws IllegalArgumentException for every date
\* before 1980-02-02, a Yom Kippur or a Tisha B'Av before it included, and
\* returns null only for a date from 1980-02-02 on that is Yom Kippur or
\* Tisha B'Av.
C20_YerushalmiStartDate ==
    last.op = "getDafYomiYerushalmi"
        => /\ comparePlainDate(Arg(1), DAF_YOMI_START_DAY) = -1
                 => Threw("IllegalArgumentException")
           /\ (Returned /\ last.res.val = Null)
                 => /\ comparePlainDate(Arg(1), DAF_YOMI_START_DAY) # -1
                    /\ NoDafDay(Arg(1))

\* what holds of C20: a date before 1980-02-02 that is neither Yom Kippur nor
\* Tisha B'Av is refused, and null is returned only on Yom Kippur or Tisha B'Av
C20_OrdinaryDaysRefused ==
    last.op = "getDafYomiYerushalmi"
        => /\ (comparePlainDate(Arg(1), DAF_YOMI_START_DAY) = -1 /\ ~NoDafDay(Arg(1)))
                 => Threw("IllegalArgumentException")
           /\ (Returned /\ last.res.val = Null) => NoDafDay(Arg(1))
           /\ (comparePlainDate(Arg(1), DAF_YOMI_START_DAY) # -1 /\ ~NoDafDay(Arg(1)))
                 => Returned /\ last.res.val.tag = "Daf"

\* the civil date a value passed to setDate denotes: an instant denotes its
\* day in the time zone of the calendar
Denoted(date, g) ==
    IF date.tag = "PlainDate" THEN date.v
    ELSE IF date.tag = "string" THEN PlainDateFrom(date.v)
    ELSE ToPlainDate(date.v, g)

\* C27: after setDate(d), d a Temporal.PlainDate, a Date, a string or a
\* number, getDate() returns the civil date d denotes (and setDate changes
\* neither the GeoLocation nor the calculator, which C27_SetDateButNumber
\* states).
C27_SetDateEveryType ==
    last.op = "setDate" => getDate(Self) = Denoted(Arg(1), getGeoLocation(Self))

\* what holds of C27: a PlainDate, a Date and a string set the date they
\* denote, a number leaves the date as it was, and no setDate changes the
\* GeoLocation or the calculator
C27_SetDateButNumber ==
    [][last'.op = "setDate"
          => /\ geo' = geo
             /\ cal'["a"].geoLocation = cal["a"].geoLocation
             /\ cal'["a"].astronomicalCalculator = cal["a"].astronomicalCalculator
             /\ cal'["a"].date =
                   IF last'.args[1].tag = "number" THEN cal["a"].date
                   ELSE Denoted(last'.args[1], geo[cal["a"].geoLocation])]_vars

\* what getZmanimJson built, but for the date
BuiltAsAsked(options, json) ==
    /\ (json.type = "com.kosherjava.zmanim.ComplexZmanimCalendar") = Truthy(options.complexZmanim)
    /\ json.type \in {"com.kosherjava.zmanim.ComplexZmanimCalendar",
                      "com.kosherjava.zmanim.ZmanimCalendar"}
    /\ options.locationName = Undefined => json.location = Null
    /\ options.elevation = Undefined => json.elevation = Num(0)
    /\ json.latitude = options.latitude
    /\ json.longitude = options.longitude
    /\ json.timeZoneID = options.timeZoneId

\* C21: getZmanimJson(options) builds its result from a ComplexZmanimCalendar
\* exactly when options.complexZmanim is truthy and from a ZmanimCalendar
\* otherwise; the GeoLocation has the name null when options.locationName is
\* absent, the elevation 0 when options.elevation is absent, and the given
\* latitude, longitude and time zone id; the date of the calendar is
\* options.date when given and the date of today otherwise.
C21_ZmanimJsonBuilt ==
    last.op = "getZmanimJson"
        => /\ BuiltAsAsked(Arg(1), last.res.val)
           /\ last.res.val.date =
                 IF Arg(1).date = Undefined THEN Arg(2).called
                 ELSE Denoted(Arg(1).date,
                              [rawOffset |-> TimeZoneRawOffset(Arg(1).timeZoneId)])

\* what holds of C21: type and GeoLocation are as asked for, and so is the
\* date unless options.date is a number
C21_BuiltButNumberDate ==
    last.op = "getZmanimJson"
        => /\ BuiltAsAsked(Arg(1), last.res.val)
           /\ Arg(1).date.tag # "number"
                 => last.res.val.date =
                       IF Arg(1).date = Undefined THEN Arg(2).called
                       ELSE Denoted(Arg(1).date,
                                    [rawOffset |-> TimeZoneRawOffset(Arg(1).timeZoneId)])

\* the event a method passes to getDateFromTime with the calculator's answer
EventOf(op) ==
    IF op \in {"getSunrise", "getSeaLevelSunrise", "getSunriseOffsetByDegrees",
               "getBeginCivilTwilight", "getBeginNauticalTwilight",
               "getBeginAstronomicalTwilight"} THEN SUNRISE
    ELSE IF op = "getSunTransit" THEN NOON
    ELSE IF op = "getSunLowerTransit" THEN MIDNIGHT
    ELSE SUNSET

\* the fractional UTC time the calculator answered to the one query of the
\* last call; the lower transit is asked at a GeoLocation of its own
TimeAnswered ==
    LET q == last.res.queries[1]
    IN  IF last.op = "getSunLowerTransit"
        THEN CalcUTCNoon(Self.astronomicalCalculator, q.date,
                         [getGeoLocation(Self) EXCEPT !.longitude = q.longitude])
        ELSE Answered(q)

\* the last call made a timestamp of a calculator's answer
MadeTimestamp ==
    /\ last.op \in RiseSetOps \cup {"getSunTransit", "getSunLowerTransit"}
    /\ Returned
    /\ IsZdt(last.res.val)
    /\ Len(last.res.queries) = 1

\* C22: the UTC day of the timestamp getDateFromTime returns is the adjusted
\* date less one day for a sunrise with localTimeHours + hours > 18, plus one
\* day for a sunset with localTimeHours + hours < 6, less one day for a lower
\* transit with localTimeHours + hours > 12, and the adjusted date in every
\* other case, always for noon; the shift is at most one day; and for a time
\* in [0, 24) hour, minute and second are in range: the time of day of the
\* timestamp is the time passed.
C22_DateRollover ==
    MadeTimestamp
        => LET time == TimeAnswered.v
               hours == time \div HOUR_NANOS
               sum == LocalTimeHours(getGeoLocation(Self)) + hours
               event == EventOf(last.op)
               shift == IF event = SUNRISE /\ sum > 18 THEN -1
                        ELSE IF event = SUNSET /\ sum < 6 THEN 1
                        ELSE IF event = MIDNIGHT /\ sum > 12 THEN -1
                        ELSE 0
           IN  /\ time \in 0 .. DAY - 1
               /\ last.res.val.v \div DAY = getAdjustedDate(Self) + shift
               /\ last.res.val.v % DAY = time

\* reached: a sunrise of the UTC day before the adjusted date
C22_Witness ==
    /\ MadeTimestamp
    /\ last.op = "getSunrise"
    /\ last.res.val.v \div DAY = getAdjustedDate(Self) - 1

\* reached: a sunset of the UTC day after the adjusted date
C22_WitnessSunset ==
    /\ MadeTimestamp
    /\ last.op = "getSunset"
    /\ last.res.val.v \div DAY = getAdjustedDate(Self) + 1

\* reached: a lower transit of the UTC day before the adjusted date
C22_WitnessLowerTransit ==
    /\ MadeTimestamp
    /\ last.op = "getSunLowerTransit"
    /\ last.res.val.v \div DAY = getAdjustedDate(Self) - 1

\* the GeoLocation whose longitude the last call took the local hours of
RolledOver == MadeTimestamp \/ (last.op = "getLocalMeanTime" /\ Returned /\ IsZdt(last.res.val))

\* C23, as stated: the localTimeHours of the rollover test is
\* floor(longitude / 15) for every longitude in [-180, 180], the negative
\* longitudes that are no multiple of 15 among them (-74.2 gives -5).
C23_LocalTimeHoursFloor ==
    RolledOver
        => LocalTimeHours(getGeoLocation(Self)) = getGeoLocation(Self).longitude \div 15

\* C23, amended: the localTimeHours of the rollover test is longitude / 15
\* rounded toward zero (-74.2 gives -4, 178 gives 11): the whole number t of
\* the sign of the longitude with |15 t| <= |longitude| < |15 t| + 15.
C23_LocalTimeHoursTruncates ==
    RolledOver
        => LET longitude == getGeoLocation(Self).longitude
               t == LocalTimeHours(getGeoLocation(Self))
           IN  /\ longitude >= 0 => (15 * t <= longitude /\ longitude < 15 * t + 15)
               /\ longitude <= 0 => (15 * t >= longitude /\ longitude > 15 * t - 15)

\* reached: a timestamp made west of Greenwich, at a longitude that is no
\* multiple of 15
C23_Witness ==
    /\ RolledOver
    /\ getGeoLocation(Self).longitude < 0
    /\ getGeoLocation(Self).longitude % 15 # 0
    /\ LocalTimeHours(getGeoLocation(Self)) = -4

\* a dip search has returned a number, on a calendar whose sea-level event
\* is defined
DipReturned(op, seaLevel) ==
    /\ last.op = op
    /\ Returned
    /\ last.res.val.tag = "number"
    /\ seaLevel # Null

\* the event at so many angle units below the horizon is defined and has
\* reached or crossed the target: toward the night for an offset above 0,
\* toward the day for one below
Crossed(event, target, towardEarlier) ==
    /\ event # Null
    /\ IF towardEarlier THEN event.v <= target ELSE event.v >= target

\* the result is s * k * step for the least k >= 1 whose event has crossed
LeastCrossing(result, minutes, step, Event(_), target, towardEarlier) ==
    IF minutes = 0 THEN result = 0
    ELSE LET s == IF minutes > 0 THEN 1 ELSE -1
             k == (s * result) \div step
         IN  /\ result = s * k * step
             /\ k >= 1
             /\ Crossed(Event(s * k * step), target, towardEarlier)
             /\ \A j \in 1 .. k - 1 : ~Crossed(Event(s * j * step), target, towardEarlier)

SunriseAtDip(degrees) == getSunriseOffsetByDegrees(Self, GEOMETRIC_ZENITH + degrees).val
SunsetAtDip(degrees) == getSunsetOffsetByDegrees(Self, GEOMETRIC_ZENITH + degrees).val

\* C24: getSunriseSolarDipFromOffset(m) and getSunsetSolarDipFromOffset(m)
\* return s * k * step, s the sign of m and k the least number of steps
\* after which the event recomputed at zenith 90 + s * k * step is defined
\* and has reached or crossed the target (sea-level sunrise less m minutes,
\* sea-level sunset plus m minutes); the result is a multiple of the step
\* with the sign of m, and 0 when m is 0 and the sea-level event is defined.
C24_DipIsLeastCrossing ==
    /\ DipReturned("getSunriseSolarDipFromOffset", getSeaLevelSunrise(Self).val)
          => LeastCrossing(last.res.val.v, Arg(1).v, SunriseIncrementor, SunriseAtDip,
                           getSeaLevelSunrise(Self).val.v - Arg(1).v * MINUTE,
                           Arg(1).v > 0)
    /\ DipReturned("getSunsetSolarDipFromOffset", getSeaLevelSunset(Self).val)
          => LeastCrossing(last.res.val.v, Arg(1).v, SunsetIncrementor, SunsetAtDip,
                           getSeaLevelSunset(Self).val.v + Arg(1).v * MINUTE,
                           Arg(1).v < 0)

\* reached: a sunrise search that ended after more than one step, with the
\* event exactly at the target
C24_Witness ==
    /\ DipReturned("getSunriseSolarDipFromOffset", getSeaLevelSunrise(Self).val)
    /\ Arg(1).v > 0
    /\ last.res.val.v > SunriseIncrementor
    /\ SunriseAtDip(last.res.val.v).v = getSeaLevelSunrise(Self).val.v - Arg(1).v * MINUTE

\* reached: a sunset search for an offset below 0 that ended after its steps
C24_WitnessSunset ==
    /\ DipReturned("getSunsetSolarDipFromOffset", getSeaLevelSunset(Self).val)
    /\ Arg(1).v < 0
    /\ last.res.val.v < 0
    /\ last.res.val.v % SunsetIncrementor = 0

\* the last call is a dip search that ended, for an offset that is not 0, on a
\* calendar whose sea-level event at zenith 90 is null
DipEndedFromNull ==
    \/ /\ last.op = "getSunriseSolarDipFromOffset"
       /\ Arg(1).tag = "number" /\ Arg(1).v # 0
       /\ getSeaLevelSunrise(Self).val = Null
    \/ /\ last.op = "getSunsetSolarDipFromOffset"
       /\ Arg(1).tag = "number" /\ Arg(1).v # 0
       /\ getSeaLevelSunset(Self).val = Null

\* C25: when the sea-level sunrise (or sunset) at zenith 90 is null and
\* minutes is not 0, the dip search steps on while the recomputed event is
\* null and, once the event is defined, completes by returning a number of
\* degrees, raising no exception.
C25_NullSeaLevelDipReturns ==
    DipEndedFromNull => (Returned /\ last.res.val.tag = "number")

\* what holds of C25: such a search steps on while the event is null, and at
\* the first step whose event is defined it ends with a TypeError
C25_NullSeaLevelDipThrows ==
    /\ DipEndedFromNull => Threw("TypeError")
    /\ (frame.pc = "body" /\ frame.offsetByTime = Undefined) => frame.offsetByDegrees = Null

\* the methods of C26: sunrise, sunset, their sea-level and offset-by-degrees
\* variants, and getSunTransit() without arguments
AdjustedDateOps ==
    {"getSunrise", "getSunset", "getSeaLevelSunrise", "getSeaLevelSunset",
     "getSunriseOffsetByDegrees", "getSunsetOffsetByDegrees", "getSunTransit"}

AdjustedDateCall(op, args) ==
    /\ op \in AdjustedDateOps
    /\ op = "getSunTransit" => args = <<Undefined, Undefined>>

\* the days from the date a query was given to the UTC day of the timestamp
RolloverOf(event, time, g) ==
    LET sum == LocalTimeHours(g) + time \div HOUR_NANOS
    IN  IF event = SUNRISE /\ sum > 18 THEN -1
        ELSE IF event = SUNSET /\ sum < 6 THEN 1
        ELSE 0

\* C26: every calculator query of sunrise, sunset, their sea-level and
\* offset-by-degrees variants and of getSunTransit() is given the stored date
\* plus a, a in {-1, 0, 1} the antimeridian adjustment of the GeoLocation at
\* the time of the query; the same adjusted date is the base date of the
\* timestamp returned; and the stored date is not modified.
C26_QueriesOnAdjustedDate ==
    /\ [](AdjustedDateCall(last.op, last.args)
            => LET a == AntimeridianAdjustment(getGeoLocation(Self))
               IN  /\ a \in {-1, 0, 1}
                   /\ Len(last.res.queries) = 1
                   /\ \A i \in 1 .. Len(last.res.queries) :
                          /\ last.res.queries[i].date = getDate(Self) + a
                          /\ last.res.queries[i].longitude = getGeoLocation(Self).longitude
                   /\ IsZdt(last.res.val)
                         => last.res.val.v \div DAY =
                               getDate(Self) + a
                                   + RolloverOf(EventOf(last.op), TimeAnswered.v,
                                                getGeoLocation(Self)))
    /\ [][AdjustedDateCall(last'.op, last'.args) /\ last' # last
             => (cal' = cal /\ geo' = geo)]_vars

\* reached: a sunrise asked of the calculator for the day before the stored
\* date
C26_Witness ==
    /\ last.op = "getSunrise"
    /\ IsZdt(last.res.val)
    /\ AntimeridianAdjustment(getGeoLocation(Self)) = -1
    /\ last.res.queries[1].date = getDate(Self) - 1

\* reached: a transit asked for the day after the stored date
C26_WitnessAfter ==
    /\ last.op = "getSunTransit"
    /\ IsZdt(last.res.val)
    /\ AntimeridianAdjustment(getGeoLocation(Self)) = 1
    /\ last.res.queries[1].date = getDate(Self) + 1

\* C28: equals(o) returns true exactly when o is an AstronomicalCalendar
\* whose date equals this date, whose GeoLocation is structurally equal to
\* this GeoLocation and whose calculator is the very same calculator object;
\* it is reflexive and symmetric, a.clone().equals(a) holds, and two
\* calendars constructed separately with the same GeoLocation and date are
\* equal only if they were given the same calculator object.
C28_EqualsIsStructural ==
    /\ last.op = "equals"
          => (last.res.val = BooleanValue(TRUE))
                = (/\ Arg(1) \in CalIds
                   /\ cal[Arg(1)].date = Self.date
                   /\ geo[cal[Arg(1)].geoLocation] = geo[Self.geoLocation]
                   /\ cal[Arg(1)].astronomicalCalculator = Self.astronomicalCalculator)
    /\ \A x \in CalIds, y \in CalIds :
          (Exists(x) /\ Exists(y)) => (equals(x, x) /\ equals(x, y) = equals(y, x))
    /\ last.op = "clone" => equals("c", "a")
    /\ (Exists("c") /\ equals("a", "c"))
          => cal["c"].astronomicalCalculator = cal["a"].astronomicalCalculator

\* reached: two calendars constructed separately, with GeoLocation objects
\* of equal fields and the same date, each with the NOAACalculator its
\* constructor made: equals answers false
C28_Witness ==
    /\ last.op = "equals"
    /\ last.self = "a" /\ Arg(1) = "c"
    /\ cal["c"].geoLocation # cal["a"].geoLocation
    /\ geo[cal["c"].geoLocation] = geo[cal["a"].geoLocation]
    /\ cal["c"].date = cal["a"].date
    /\ cal["a"].astronomicalCalculator = "NOAA"
    /\ cal["c"].astronomicalCalculator = "NOAA2"
    /\ last.res.val = BooleanValue(FALSE)

\* reached: the same two calendars once given one calculator object: true
C28_WitnessEqual ==
    /\ last.op = "equals"
    /\ last.self = "a" /\ Arg(1) = "c"
    /\ cal["c"].geoLocation # cal["a"].geoLocation
    /\ cal["c"].astronomicalCalculator = "Custom"
    /\ last.res.val = BooleanValue(TRUE)

\* the day after a civil date
NextDay(date) ==
    IF date.day < DaysInMonth(date.year, date.month)
    THEN PlainDate(date.year, date.month, date.day + 1)
    ELSE IF date.month < 12 THEN PlainDate(date.year, date.month + 1, 1)
    ELSE PlainDate(date.year + 1, 1, 1)

\* the pages of Kinnim, Tamid and Midos are counted on from 22, 25 and 33
PageShift(masechta) ==
    IF masechta = 36 THEN 21 ELSE IF masechta = 37 THEN 24 ELSE IF masechta = 38 THEN 32 ELSE 0

\* the last page of a masechta on a date: Shekalim has 13 blatt in the first
\* seven cycles and 22 from 1975-06-24 on
LastPage(masechta, date) ==
    (IF masechta = 4
     THEN (IF comparePlainDate(date, shekalimChangeDate) = -1 THEN 13 ELSE 22)
     ELSE blattPerMasechta[masechta + 1]) + PageShift(masechta)

\* the daf after a daf: the next page, or the first page of the next
\* masechta, Berachos after Niddah
Successor(daf, date) ==
    IF daf.v < LastPage(daf.masechtaNumber, date)
    THEN Daf(daf.masechtaNumber, daf.v + 1)
    ELSE Daf((daf.masechtaNumber + 1) % 40, 2 + PageShift((daf.masechtaNumber + 1) % 40))

\* the daf of the date is a page of its masechta and the daf of the next day
\* is its successor
DafInSequence(date, daf) ==
    /\ daf.tag = "Daf"
    /\ daf.masechtaNumber \in 0 .. 39
    /\ daf.v >= 2
    /\ daf.v <= LastPage(daf.masechtaNumber, date)
    /\ getDafYomiBavli(NextDay(date)).val = Successor(daf, date)

\* C29: for every date from 1923-09-11 on, getDafYomiBavli returns a Daf
\* whose masechta is in 0..39 and whose daf is at least 2 and at most the
\* page count of the masechta (counted on by 21, 24 and 32 for the masechtos
\* 36, 37 and 38), and the daf of the next day is its successor: the next
\* page of the masechta or, after its last page, the first page of the next
\* masechta, masechta 0 after masechta 39.
C29_DafInSequence ==
    (last.op = "getDafYomiBavli" /\ comparePlainDate(Arg(1), dafYomiStartDate) # -1)
        => (Returned /\ DafInSequence(Arg(1), last.res.val))

\* what holds of C29: the same for every date up to the first day of the
\* seventh cycle, 1968-01-30, and from 1975-06-24 on
C29_InSequenceButSeventhCycle ==
    (/\ last.op = "getDafYomiBavli"
     /\ comparePlainDate(Arg(1), dafYomiStartDate) # -1
     /\ \/ comparePlainDate(Arg(1), PlainDate(1968, 1, 30)) # 1
        \/ comparePlainDate(Arg(1), shekalimChangeDate) # -1)
        => (Returned /\ DafInSequence(Arg(1), last.res.val))

\* the entries a data set stores under a key, and the entries of a result
Stored(table, key) ==
    IF key \in DOMAIN table THEN {table[key][i] : i \in 1 .. Len(table[key])} ELSE {}
Entries(value) ==
    IF value.tag = "Array" THEN {value.v[i] : i \in 1 .. Len(value.v)} ELSE {}
NoDuplicates(value) ==
    /\ value.tag = "Array"
    /\ \A i, j \in 1 .. Len(value.v) : value.v[i] = value.v[j] => i = j

HiloulahCall == last.op \in {"getHiloulah", "getHiloulahAsync"}
AdarOfPlainYear == ~isJewishLeapYear(Arg(2).year) /\ Arg(2).month = ADAR
KeyOf(month) == PadStart2(month) \o PadStart2(Arg(2).day)

\* C30: getHiloulah returns, for each language, for a date in Adar of a year
\* that is not a leap year the union of the entries stored under the keys
\* 12dd and 13dd of the day of the month, no entry twice and none missing,
\* and for every other date exactly the entries stored under the key MMdd.
C30_HiloulahOfBothAdars ==
    HiloulahCall =>
        /\ Returned
        /\ IF AdarOfPlainYear
           THEN /\ Entries(last.res.val.en)
                     = Stored(Arg(1).en, KeyOf(12)) \cup Stored(Arg(1).en, KeyOf(13))
                /\ Entries(last.res.val.he)
                     = Stored(Arg(1).he, KeyOf(12)) \cup Stored(Arg(1).he, KeyOf(13))
                /\ NoDuplicates(last.res.val.en)
                /\ NoDuplicates(last.res.val.he)
           ELSE /\ Entries(last.res.val.en) = Stored(Arg(1).en, KeyOf(Arg(2).month))
                /\ Entries(last.res.val.he) = Stored(Arg(1).he, KeyOf(Arg(2).month))

\* what holds of C30: in Adar of a plain year the entries are those of the
\* key 12dd alone; every other date is as the claim says
C30_HiloulahOfFirstKey ==
    HiloulahCall =>
        /\ Returned
        /\ Entries(last.res.val.en)
             = Stored(Arg(1).en, KeyOf(Arg(2).month))
        /\ Entries(last.res.val.he)
             = Stored(Arg(1).he, KeyOf(Arg(2).month))
        /\ AdarOfPlainYear => NoDuplicates(last.res.val.en) /\ NoDuplicates(last.res.val.he)

====
